---- MODULE Spec2Model ----
(***************************************************************************)
(* A model of the client-side lending front end: the ContractProvider      *)
(* account state and its supply / withdraw / borrow / repay operations,    *)
(* the useBorrow / useSupply hooks that wrap them, the borrow and supply   *)
(* modals with the callback chain the pages wire, and the health-factor    *)
(* functions (prediction and risk classification).                         *)
(*                                                                         *)
(* JavaScript numbers are modelled as exact rationals extended with NaN,   *)
(* +Infinity and -Infinity; `undefined` is a value of its own that the     *)
(* arithmetic operators coerce to NaN, as ToNumber does.  Rounding of      *)
(* IEEE doubles and the sign of zero are not modelled.                     *)
(***************************************************************************)
EXTENDS Integers, Sequences, FiniteSets, TLC

(***************************************************************************)
(* Bounds of the model.                                                    *)
(***************************************************************************)
MaxAmount == 2
MaxPositions == 1
MaxClock == 3
MaxGrid == 105
MaxValue == 4
MaxTicks == 1
MaxPrice == 2
MaxLedgerClock == 6
MaxLedgerPositions == 2
MaxCompoundings == 3
MaxOverlap == 2
MaxCalls == 3
MaxOverlapClock == 1
MaxWalletCalls == 2
MaxListeners == 3
MaxPending == 2
MaxReceived == 2

(***************************************************************************)
(* JavaScript numbers.                                                     *)
(***************************************************************************)
RECURSIVE GCD(_, _)
GCD(a, b) == IF b = 0 THEN a ELSE GCD(b, a % b)

Abs(x) == IF x < 0 THEN -x ELSE x

Sign(x) == IF x < 0 THEN -1 ELSE IF x > 0 THEN 1 ELSE 0

\* The rational n/d (d # 0) in lowest terms with a positive denominator.
Fin(n, d) ==
    LET g == GCD(Abs(n), Abs(d))
        s == IF d < 0 THEN -1 ELSE 1
    IN  [k |-> "fin", n |-> (s * n) \div g, d |-> (s * d) \div g]

Int2Num(i) == [k |-> "fin", n |-> i, d |-> 1]

NaN == [k |-> "nan", n |-> 0, d |-> 1]

Infinity == [k |-> "inf", n |-> 0, d |-> 1]

NegInfinity == [k |-> "ninf", n |-> 0, d |-> 1]

Undefined == [k |-> "undef", n |-> 0, d |-> 1]

Null == [k |-> "null", n |-> 0, d |-> 1]

Zero == Int2Num(0)

\* ToNumber: undefined becomes NaN, null becomes 0.
ToNumber(x) ==
    IF x.k = "undef" THEN NaN ELSE IF x.k = "null" THEN Zero ELSE x

IsNaN(x) == ToNumber(x).k = "nan"

IsFinite(x) == ToNumber(x).k = "fin"

\* The sign of an extended number that is not NaN.
SignOf(x) ==
    IF x.k = "inf" THEN 1 ELSE IF x.k = "ninf" THEN -1 ELSE Sign(x.n)

InfOfSign(s) == IF s > 0 THEN Infinity ELSE IF s < 0 THEN NegInfinity ELSE NaN

Neg(x0) ==
    LET x == ToNumber(x0)
    IN  IF x.k = "nan" THEN NaN
        ELSE IF x.k = "inf" THEN NegInfinity
        ELSE IF x.k = "ninf" THEN Infinity
        ELSE Fin(-x.n, x.d)

Add(x0, y0) ==
    LET x == ToNumber(x0)
        y == ToNumber(y0)
    IN  IF x.k = "nan" \/ y.k = "nan" THEN NaN
        ELSE IF x.k = "fin" /\ y.k = "fin" THEN Fin(x.n * y.d + y.n * x.d, x.d * y.d)
        ELSE IF x.k = "fin" THEN y
        ELSE IF y.k = "fin" THEN x
        ELSE IF x.k = y.k THEN x
        ELSE NaN

Sub(x, y) == Add(x, Neg(y))

Mul(x0, y0) ==
    LET x == ToNumber(x0)
        y == ToNumber(y0)
    IN  IF x.k = "nan" \/ y.k = "nan" THEN NaN
        ELSE IF x.k = "fin" /\ y.k = "fin" THEN Fin(x.n * y.n, x.d * y.d)
        ELSE InfOfSign(SignOf(x) * SignOf(y))

Div(x0, y0) ==
    LET x == ToNumber(x0)
        y == ToNumber(y0)
    IN  IF x.k = "nan" \/ y.k = "nan" THEN NaN
        ELSE IF x.k = "fin" /\ y.k = "fin"
             THEN IF y.n = 0 THEN InfOfSign(Sign(x.n)) ELSE Fin(x.n * y.d, x.d * y.n)
        ELSE IF x.k = "fin" THEN Zero
        ELSE IF y.k = "fin" THEN InfOfSign(SignOf(x) * (IF y.n < 0 THEN -1 ELSE 1))
        ELSE NaN

\* x < y; false whenever an operand is NaN.
Lt(x0, y0) ==
    LET x == ToNumber(x0)
        y == ToNumber(y0)
    IN  IF x.k = "nan" \/ y.k = "nan" THEN FALSE
        ELSE IF x.k = "fin" /\ y.k = "fin"
             THEN IF x.n \div x.d # y.n \div y.d
                  THEN x.n \div x.d < y.n \div y.d
                  ELSE (x.n % x.d) * y.d < (y.n % y.d) * x.d
        ELSE IF x.k = y.k THEN FALSE
        ELSE IF x.k = "ninf" \/ y.k = "inf" THEN TRUE
        ELSE FALSE

Gt(x, y) == Lt(y, x)

\* x === y on numbers; false whenever an operand is NaN.
StrictEq(x, y) ==
    /\ x.k \notin {"nan", "undef", "null"}
    /\ y.k \notin {"nan", "undef", "null"}
    /\ x = y

Le(x, y) == Lt(x, y) \/ StrictEq(ToNumber(x), ToNumber(y))

Ge(x, y) == Le(y, x)

\* ToBoolean: null, undefined, NaN and 0 are falsy.
Truthy(x) == ~(x.k \in {"undef", "null", "nan"} \/ (x.k = "fin" /\ x.n = 0))

\* Math.min of two numbers.
MathMin(x0, y0) ==
    LET x == ToNumber(x0)
        y == ToNumber(y0)
    IN  IF x.k = "nan" \/ y.k = "nan" THEN NaN ELSE IF Lt(y, x) THEN y ELSE x

\* Number.prototype.toFixed(2) read back as a number: rounding to two decimals.
ToFixed2(x) ==
    IF x.k # "fin" THEN x
    ELSE LET a == Abs(x.n) * 100
             q == (2 * a + x.d) \div (2 * x.d)
         IN  Fin(Sign(x.n) * q, 100)


(***************************************************************************)
(* Reference data and inputs.                                              *)
(***************************************************************************)
\* Token objects as the operations receive them.  The SUPPORTED_TOKENS
\* entries carry no price field, so token.price reads undefined ("ETH"
\* below); a caller that attaches a price from the price service attaches
\* a positive price or the zero-price sentinel.
Token(symbol, isNative, price) ==
    [symbol |-> symbol, isNative |-> isNative, price |-> price]

SUPPORTED_TOKENS ==
    { Token("ETH", TRUE, Undefined),
      Token("USDC", FALSE, Int2Num(1)),
      Token("DAI", FALSE, Zero) }

NoToken == Token("none", FALSE, Undefined)

HEALTH_FACTOR ==
    [CRITICAL |-> Int2Num(1), WARNING |-> Fin(12, 10),
     SAFE |-> Fin(15, 10), HEALTHY |-> Int2Num(2)]

\* formatUnits(raw, decimals) read by parseFloat: raw / 10^decimals.  Raw
\* chain integers are carried in the model with two decimal digits (raw
\* 150 stands for 1.50 units), whatever the on-chain scale (18 for amounts
\* and the health factor, 8 for oracle prices).
FormatUnits(raw) == Fin(raw, 100)

\* formatUnits(raw, 4) for the liquidation threshold and the LTV, which the
\* pool reports in basis points.
FormatUnits4(raw) == Fin(raw, 10000)

\* The health factor the pool reports for an account without debt is the
\* largest uint256; formatUnits and parseFloat turn it into a finite number
\* of the order 1e59.  Any number above every threshold stands for it here.
UintMaxHF == 1000000

\* What getUserAccountData can return, as raw chain integers:
\* <<collateral, debt, availableBorrows, liquidationThreshold, healthFactor>>.
ChainSnapshot(c, d, a, lt, hf) ==
    [collateral |-> c, debt |-> d, available |-> a, lt |-> lt, hf |-> hf]

ChainHF(c, d, lt) == IF d = 0 THEN UintMaxHF ELSE (c * (lt \div 100)) \div d

ChainSnapshots ==
    { ChainSnapshot(400, 0, 300, 8500, ChainHF(400, 0, 8500)),
      ChainSnapshot(400, 200, 100, 8500, ChainHF(400, 200, 8500)),
      ChainSnapshot(200, 200, 0, 8500, ChainHF(200, 200, 8500)) }


(***************************************************************************)
(* State.                                                                  *)
(***************************************************************************)
VARIABLES
    supplies,           \* ContractProvider: supply positions, in insertion order
    borrows,            \* ContractProvider: borrow positions
    totalSupplied,      \* ContractProvider: total collateral value
    totalBorrowed,      \* ContractProvider: total debt value
    healthFactor,       \* ContractProvider: current health factor
    availableToBorrow,  \* ContractProvider: remaining borrow capacity
    transactions,       \* ContractProvider: transaction history, newest first
    isLoading,          \* ContractProvider: an operation is in progress
    error,              \* ContractProvider: message of the last failed operation
    page,               \* the page shown: "index", "supply" or "borrow"
    hookError,          \* error state of the page's useSupply / useBorrow instance
    modal,              \* the modal of a card: token, step, error, its hook's error
    connected,          \* wallet: account, signer and provider are present
    balance,            \* wallet: native balance
    now,                \* the clock Date.now() reads
    query,              \* inputs of the pure health-factor functions
    answer,             \* result of the last pure function applied to query
    priceCache,         \* price service: the module's Map of cache entries
    priceResult,        \* price service: what the last call did and returned
    inflight,           \* ContractProvider: the operations awaiting the wallet or the chain
    allowance,          \* chain: what the lending pool may spend of the account's USDC
    account,            \* WalletProvider: the selected account, or "null"
    chainId,            \* WalletProvider: the chain id, or "null"
    walletCalls,        \* WalletProvider: async calls awaiting the wallet or the chain
    listeners,          \* window.ethereum: handlers registered for each event
    stored,             \* localStorage: the wallet-connected flag
    subscription        \* price service: a subscription, its fetches and deliveries

vars ==
    <<supplies, borrows, totalSupplied, totalBorrowed, healthFactor,
      availableToBorrow, transactions, isLoading, error, page, hookError,
      modal, connected, balance, now, query, answer, priceCache, priceResult,
      inflight, allowance, account, chainId, walletCalls, listeners, stored,
      subscription>>

\* What the operations in progress, the wallet provider's effects and the
\* price subscriptions hold besides the state above.
sessionVars == <<account, chainId, walletCalls, listeners, stored>>

otherVars == <<inflight, allowance, sessionVars, subscription>>

\* The handlers the mounted WalletProvider has registered on window.ethereum.
MountedListeners == [accountsChanged |-> 1, chainChanged |-> 1, disconnect |-> 1]

\* No price subscription has been made.
NoSubscription == [state |-> "none", pending |-> 0, received |-> 0]

\* No operation has been called yet; the providers are mounted, with
\* nothing stored from an earlier visit.
OtherInit ==
    /\ inflight = <<>>
    /\ allowance = 0
    /\ account = "null"
    /\ chainId = "null"
    /\ walletCalls = <<>>
    /\ listeners = MountedListeners
    /\ stored = FALSE
    /\ subscription = NoSubscription

cpVars ==
    <<supplies, borrows, totalSupplied, totalBorrowed, healthFactor,
      availableToBorrow, transactions, isLoading, error, now>>

\* The ContractProvider state (with the clock) as one record, so that an
\* operation can be applied to the state another one left.
CP ==
    [supplies |-> supplies, borrows |-> borrows,
     totalSupplied |-> totalSupplied, totalBorrowed |-> totalBorrowed,
     healthFactor |-> healthFactor, availableToBorrow |-> availableToBorrow,
     transactions |-> transactions, isLoading |-> isLoading,
     error |-> error, now |-> now]

SetCP(s) ==
    /\ supplies' = s.supplies
    /\ borrows' = s.borrows
    /\ totalSupplied' = s.totalSupplied
    /\ totalBorrowed' = s.totalBorrowed
    /\ healthFactor' = s.healthFactor
    /\ availableToBorrow' = s.availableToBorrow
    /\ transactions' = s.transactions
    /\ isLoading' = s.isLoading
    /\ error' = s.error
    /\ now' = s.now

\* useState initial values of ContractProvider.
InitCP ==
    [supplies |-> <<>>, borrows |-> <<>>,
     totalSupplied |-> Zero, totalBorrowed |-> Zero,
     healthFactor |-> Infinity, availableToBorrow |-> Zero,
     transactions |-> <<>>, isLoading |-> FALSE,
     error |-> "null", now |-> 0]

(***************************************************************************)
(* ContractProvider.                                                       *)
(***************************************************************************)
TX_TYPES ==
    [SUPPLY |-> "supply", WITHDRAW |-> "withdraw", BORROW |-> "borrow",
     REPAY |-> "repay", APPROVE |-> "approve"]

TX_STATUS ==
    [PENDING |-> "pending", CONFIRMED |-> "confirmed", FAILED |-> "failed"]

\* How the wallet and the chain answer one operation: the allowance check
\* and approval, the submission and confirmation of the pool transaction,
\* and the account data read afterwards ("fail" or a snapshot).
ApproveOutcomes == {"sufficient", "approved", "failed"}

TxOutcomes == {"rejected", "reverted", "confirmed"}

LoadOutcomes == {[ok |-> FALSE, data |-> ChainSnapshot(0, 0, 0, 0, 0)]}
                  \cup {[ok |-> TRUE, data |-> d] : d \in ChainSnapshots}

NoLoad == [ok |-> FALSE, data |-> ChainSnapshot(0, 0, 0, 0, 0)]

\* An answer that is never asked for is left at its first value: after a
\* failed approval no transaction is sent, and the account data is read
\* only after a confirmation.
Envs ==
    {e \in [approve : ApproveOutcomes, tx : TxOutcomes, load : LoadOutcomes] :
        /\ e.approve = "failed" => e.tx = "rejected"
        /\ e.tx # "confirmed" => e.load = NoLoad}

\* Date.now(): operations are separated by user actions and by answers of
\* the wallet and the chain, so every reading is later than the one before.
DateNow(s) == s.now + 1

\* addTransaction: a pending record with id Date.now() at the head.
addTransaction(s, type) ==
    [s EXCEPT !.now = DateNow(s),
              !.transactions =
        <<[id |-> DateNow(s), type |-> type, status |-> TX_STATUS.PENDING,
           hash |-> "none"]>> \o @]

\* updateTransactionStatus: every record with that id takes the status and
\* the hash.  Every hash is written "0x": a record has one once the wallet
\* has returned a transaction for it.
updateTransactionStatus(s, txId, status, hash) ==
    [s EXCEPT !.transactions =
        [i \in DOMAIN @ |->
            IF @[i].id = txId THEN [@[i] EXCEPT !.status = status, !.hash = hash]
            ELSE @[i]]]

\* parseUnits(amount.toString(), decimals) throws on what is no decimal number.
ParseUnitsThrows(amount) == amount.k # "fin"

\* The result of an operation: the state it leaves, whether it threw, how
\* often it called a method of the lending pool, and how many pool
\* transactions were submitted (the call returned a transaction).
Result(s, threw, calls, sent) ==
    [s |-> s, threw |-> threw, calls |-> calls, sent |-> sent]

\* catch: setError(err.message); finally: setIsLoading(false).
Caught(s, msg, calls, sent) ==
    Result([s EXCEPT !.error = msg, !.isLoading = FALSE], TRUE, calls, sent)

Returned(s, calls, sent) ==
    Result([s EXCEPT !.isLoading = FALSE], FALSE, calls, sent)

\* loadUserAccountData: on success the four account values are replaced by
\* the pool's; a failed read is logged and leaves the state as it is.
loadUserAccountData(s, isConn, load) ==
    IF ~isConn \/ ~load.ok THEN s
    ELSE [s EXCEPT !.totalSupplied = FormatUnits(load.data.collateral),
                   !.totalBorrowed = FormatUnits(load.data.debt),
                   !.availableToBorrow = FormatUnits(load.data.available),
                   !.healthFactor = FormatUnits(load.data.hf)]

\* checkAndApprove: nothing to do when the allowance suffices; otherwise an
\* approval transaction is recorded and awaited.
checkAndApprove(s, approve) ==
    IF approve = "sufficient" THEN [s |-> s, threw |-> FALSE]
    ELSE LET s1 == addTransaction(s, TX_TYPES.APPROVE)
         IN  IF approve = "failed" THEN [s |-> s1, threw |-> TRUE]
             ELSE [s |-> updateTransactionStatus(s1, s1.now, TX_STATUS.CONFIRMED, "0x"),
                   threw |-> FALSE]


Position(id, token, amount) == [id |-> id, token |-> token, amount |-> amount]

\* Array.prototype.find: the first element with that id, or NoPosition.
NoPosition == Position(-1, NoToken, Undefined)

FindById(list, id) ==
    IF \E i \in DOMAIN list : list[i].id = id
    THEN list[CHOOSE i \in DOMAIN list :
                /\ list[i].id = id
                /\ \A j \in DOMAIN list : list[j].id = id => i <= j]
    ELSE NoPosition

\* prev.filter(p => p.id !== id)
FilterOutId(list, id) == SelectSeq(list, LAMBDA p : p.id # id)

\* The map with the id test left out: every position is reduced.
ReduceById_Every(list, id, amount) ==
    [i \in DOMAIN list |-> [list[i] EXCEPT !.amount = Sub(@, amount)]]

\* prev.map(p => p.id === id ? {...p, amount: p.amount - parseFloat(amount)} : p)
ReduceById(list, id, amount) ==
    [i \in DOMAIN list |->
        IF list[i].id = id
        THEN [list[i] EXCEPT !.amount = Sub(@, amount)]
        ELSE list[i]]

\* The submission and confirmation of one pool transaction of the given
\* type: the record is added, the pool method is called, and the receipt is
\* awaited.  A call that throws or a transaction that reverts leaves the
\* record as it is.
Submit(s, type, tx) ==
    LET s1 == addTransaction(s, type)
        s2 == updateTransactionStatus(s1, s1.now, TX_STATUS.PENDING, "0x")
        s3 == updateTransactionStatus(s2, s1.now, TX_STATUS.CONFIRMED, "0x")
    IN  IF tx = "rejected" THEN [s |-> s1, threw |-> TRUE, sent |-> 0]
        ELSE IF tx = "reverted" THEN [s |-> s2, threw |-> TRUE, sent |-> 1]
        ELSE [s |-> s3, threw |-> FALSE, sent |-> 1]

\* ContractProvider.supply(token, amount)
CPSupply(s0, isConn, token, amount, env) ==
    IF ~isConn THEN Result(s0, TRUE, 0, 0)
    ELSE
    LET s == [s0 EXCEPT !.isLoading = TRUE, !.error = "null"]
        ap == IF token.isNative THEN [s |-> s, threw |-> FALSE]
              ELSE checkAndApprove(s, env.approve)
        sub == Submit(ap.s, TX_TYPES.SUPPLY, env.tx)
        newSupply == Position(DateNow(sub.s), token, amount)
        s4 == [sub.s EXCEPT !.now = DateNow(sub.s),
                            !.supplies = Append(@, newSupply),
                            !.totalSupplied = Add(@, Mul(amount, token.price))]
    IN  IF ParseUnitsThrows(amount) THEN Caught(s, "invalid amount", 0, 0)
        ELSE IF ap.threw THEN Caught(ap.s, "approval failed", 0, 0)
        ELSE IF sub.threw THEN Caught(sub.s, "transaction failed", 1, sub.sent)
        ELSE Returned(loadUserAccountData(s4, isConn, env.load), 1, 1)

\* ContractProvider.withdraw(supplyId, amount = null)
CPWithdraw(s0, isConn, supplyId, amount, env) ==
    IF ~isConn THEN Result(s0, TRUE, 0, 0)
    ELSE
    LET s == [s0 EXCEPT !.isLoading = TRUE, !.error = "null"]
        supply == FindById(s0.supplies, supplyId)
        withdrawAmount == IF Truthy(amount) THEN amount ELSE supply.amount
        sub == Submit(s, TX_TYPES.WITHDRAW, env.tx)
        partial ==
            [sub.s EXCEPT
                !.supplies = ReduceById(@, supplyId, amount),
                !.totalSupplied = Sub(@, Mul(amount, supply.token.price))]
        full ==
            [sub.s EXCEPT
                !.supplies = FilterOutId(@, supplyId),
                !.totalSupplied = Sub(@, Mul(supply.amount, supply.token.price))]
        s4 == IF Truthy(amount) /\ Lt(amount, supply.amount) THEN partial ELSE full
    IN  IF supply = NoPosition THEN Caught(s, "Supply not found", 0, 0)
        ELSE IF ParseUnitsThrows(withdrawAmount) THEN Caught(s, "invalid amount", 0, 0)
        ELSE IF sub.threw THEN Caught(sub.s, "transaction failed", 1, sub.sent)
        ELSE Returned(loadUserAccountData(s4, isConn, env.load), 1, 1)

\* ContractProvider.borrow with the position added as soon as the
\* transaction is submitted, before its confirmation.
CPBorrow_Optimistic(s0, isConn, token, amount, env) ==
    IF ~isConn THEN Result(s0, TRUE, 0, 0)
    ELSE
    LET s == [s0 EXCEPT !.isLoading = TRUE, !.error = "null"]
        sub == Submit(s, TX_TYPES.BORROW, env.tx)
        newBorrow == Position(DateNow(sub.s), token, amount)
        s4 == [sub.s EXCEPT !.now = DateNow(sub.s),
                            !.borrows = Append(@, newBorrow),
                            !.totalBorrowed = Add(@, Mul(amount, token.price))]
    IN  IF ParseUnitsThrows(amount) THEN Caught(s, "invalid amount", 0, 0)
        ELSE IF sub.threw /\ sub.sent = 0
        THEN Caught(sub.s, "transaction failed", 1, sub.sent)
        ELSE IF sub.threw THEN Caught(s4, "transaction failed", 1, sub.sent)
        ELSE Returned(loadUserAccountData(s4, isConn, env.load), 1, 1)

\* ContractProvider.borrow(token, amount)
CPBorrow(s0, isConn, token, amount, env) ==
    IF ~isConn THEN Result(s0, TRUE, 0, 0)
    ELSE
    LET s == [s0 EXCEPT !.isLoading = TRUE, !.error = "null"]
        sub == Submit(s, TX_TYPES.BORROW, env.tx)
        newBorrow == Position(DateNow(sub.s), token, amount)
        s4 == [sub.s EXCEPT !.now = DateNow(sub.s),
                            !.borrows = Append(@, newBorrow),
                            !.totalBorrowed = Add(@, Mul(amount, token.price))]
    IN  IF ParseUnitsThrows(amount) THEN Caught(s, "invalid amount", 0, 0)
        ELSE IF sub.threw THEN Caught(sub.s, "transaction failed", 1, sub.sent)
        ELSE Returned(loadUserAccountData(s4, isConn, env.load), 1, 1)

\* ContractProvider.repay(borrowId, amount = null)
CPRepay(s0, isConn, borrowId, amount, env) ==
    IF ~isConn THEN Result(s0, TRUE, 0, 0)
    ELSE
    LET s == [s0 EXCEPT !.isLoading = TRUE, !.error = "null"]
        borrowData == FindById(s0.borrows, borrowId)
        repayAmount == IF Truthy(amount) THEN amount ELSE borrowData.amount
        ap == checkAndApprove(s, env.approve)
        sub == Submit(ap.s, TX_TYPES.REPAY, env.tx)
        partial ==
            [sub.s EXCEPT
                !.borrows = ReduceById(@, borrowId, amount),
                !.totalBorrowed = Sub(@, Mul(amount, borrowData.token.price))]
        full ==
            [sub.s EXCEPT
                !.borrows = FilterOutId(@, borrowId),
                !.totalBorrowed =
                    Sub(@, Mul(borrowData.amount, borrowData.token.price))]
        s4 == IF Truthy(amount) /\ Lt(amount, borrowData.amount) THEN partial ELSE full
    IN  IF borrowData = NoPosition THEN Caught(s, "Borrow not found", 0, 0)
        ELSE IF ParseUnitsThrows(repayAmount) THEN Caught(s, "invalid amount", 0, 0)
        ELSE IF ap.threw THEN Caught(ap.s, "approval failed", 0, 0)
        ELSE IF sub.threw THEN Caught(sub.s, "transaction failed", 1, sub.sent)
        ELSE Returned(loadUserAccountData(s4, isConn, env.load), 1, 1)


(***************************************************************************)
(* useBorrow and useSupply.                                                *)
(*                                                                         *)
(* Amounts typed by the user are strings; a numeric string is carried as   *)
(* its value and the empty input as Null.  The functions below read the    *)
(* context state `cs` their closure captured at render time.               *)
(***************************************************************************)
ParseFloat(x) == IF x.k \in {"null", "undef"} THEN NaN ELSE x

\* useBorrow.getMaxBorrowable(token)
getMaxBorrowable(cs, token) ==
    Mul(Div(cs.availableToBorrow, token.price), Fin(99, 100))

\* useBorrow.calculateNewHealthFactor(borrowAmount, token)
calculateNewHealthFactor(cs, borrowAmount, token) ==
    IF ~Truthy(borrowAmount) \/ StrictEq(ParseFloat(borrowAmount), Zero)
    THEN cs.healthFactor
    ELSE LET borrowValue == Mul(ParseFloat(borrowAmount), token.price)
             newTotalBorrowed == Add(cs.totalBorrowed, borrowValue)
         IN  IF StrictEq(newTotalBorrowed, Zero) THEN Infinity
             ELSE Div(Mul(cs.totalSupplied, Fin(85, 100)), newTotalBorrowed)

\* useBorrow.validateBorrowAmount(amount, token): the verdict and the
\* message left in the hook's error state ("null" when it passes).
validateBorrowAmount(cs, amount, token) ==
    IF ~Truthy(amount) \/ Le(ParseFloat(amount), Zero)
    THEN [ok |-> FALSE, err |-> "Please enter a valid amount"]
    ELSE IF token = NoToken
    THEN [ok |-> FALSE, err |-> "Please select a token"]
    ELSE IF Gt(ParseFloat(amount), getMaxBorrowable(cs, token))
    THEN [ok |-> FALSE, err |-> "Maximum borrowable amount exceeded"]
    ELSE IF Lt(calculateNewHealthFactor(cs, amount, token), HEALTH_FACTOR.SAFE)
    THEN [ok |-> FALSE, err |-> "This borrow is risky"]
    ELSE [ok |-> TRUE, err |-> "null"]

\* useSupply.validateSupplyAmount(amount, token)
validateSupplyAmount(bal, amount, token) ==
    IF ~Truthy(amount) \/ Le(ParseFloat(amount), Zero)
    THEN [ok |-> FALSE, err |-> "Please enter a valid amount"]
    ELSE IF token = NoToken
    THEN [ok |-> FALSE, err |-> "Please select a token"]
    ELSE IF token.isNative /\ Gt(ParseFloat(amount), ParseFloat(bal))
    THEN [ok |-> FALSE, err |-> "Insufficient balance"]
    ELSE [ok |-> TRUE, err |-> "null"]

\* The result of a hook method: the provider's result, what the method
\* returned ("null", "receipt", or "throw"), and the hook's error state.
HookResult(r, ret, err) ==
    [s |-> r.s, threw |-> r.threw, calls |-> r.calls, sent |-> r.sent,
     ret |-> ret, err |-> err]

Refused(s, err) == HookResult(Result(s, FALSE, 0, 0), "null", err)

Wrapped(r) ==
    IF r.threw THEN HookResult(r, "throw", r.s.error)
    ELSE HookResult(r, "receipt", "null")

\* useBorrow.borrow(token, amount)
UseBorrowBorrow(s, cs, isConn, token, amount, env) ==
    IF ~isConn THEN Refused(s, "Please connect your wallet")
    ELSE IF ~validateBorrowAmount(cs, amount, token).ok
    THEN Refused(s, validateBorrowAmount(cs, amount, token).err)
    ELSE Wrapped(CPBorrow(s, isConn, token, amount, env))

\* useBorrow.repay(borrowId, amount = null)
UseBorrowRepay(s, isConn, borrowId, amount, env) ==
    IF ~isConn THEN Refused(s, "Please connect your wallet")
    ELSE Wrapped(CPRepay(s, isConn, borrowId, amount, env))

\* useSupply.supply(token, amount)
UseSupplySupply(s, bal, isConn, token, amount, env) ==
    IF ~isConn THEN Refused(s, "Please connect your wallet")
    ELSE IF ~validateSupplyAmount(bal, amount, token).ok
    THEN Refused(s, validateSupplyAmount(bal, amount, token).err)
    ELSE Wrapped(CPSupply(s, isConn, token, amount, env))

\* useSupply.withdraw(supplyId, amount = null)
UseSupplyWithdraw(s, isConn, supplyId, amount, env) ==
    IF ~isConn THEN Refused(s, "Please connect your wallet")
    ELSE Wrapped(CPWithdraw(s, isConn, supplyId, amount, env))


(***************************************************************************)
(* The borrow and supply cards and modals.                                 *)
(***************************************************************************)
\* formatCurrency(x) with "$" and "," removed, read back by parseFloat (the
\* page passes the borrow capacity to the cards this way).
CurrencyRoundTrip(x0) ==
    LET x == ParseFloat(x0)
    IN  IF IsNaN(x) THEN Zero
        ELSE IF Ge(x, Int2Num(1000000000)) THEN ToFixed2(Div(x, Int2Num(1000000000)))
        ELSE IF Ge(x, Int2Num(1000000)) THEN ToFixed2(Div(x, Int2Num(1000000)))
        ELSE IF Ge(x, Int2Num(1000)) THEN ToFixed2(Div(x, Int2Num(1000)))
        ELSE ToFixed2(x)

\* useBorrow.canBorrow
canBorrow(cs) ==
    /\ Gt(cs.totalSupplied, Zero)
    /\ Gt(cs.availableToBorrow, Zero)
    /\ Ge(cs.healthFactor, HEALTH_FACTOR.SAFE)

\* BorrowCard: the maxBorrowable prop of its modal.
CardMaxBorrowable(cs, token) ==
    LET avail == IF canBorrow(cs) THEN CurrencyRoundTrip(cs.availableToBorrow) ELSE Zero
    IN  MathMin(Div(avail, token.price), Int2Num(1000000))

\* BorrowModal: the error its validation effect leaves for the amount typed.
BorrowModalError(cs, token, amount) ==
    LET numAmount == ParseFloat(amount)
        newHF == calculateNewHealthFactor(cs, amount, token)
    IN  IF ~Truthy(amount) THEN ""
        ELSE IF IsNaN(numAmount) \/ Le(numAmount, Zero) THEN "Please enter a valid amount"
        ELSE IF Gt(numAmount, CardMaxBorrowable(cs, token))
             THEN "Maximum borrowable amount exceeded"
        ELSE IF Lt(newHF, Fin(12, 10)) THEN "High risk of liquidation"
        ELSE IF Lt(newHF, Fin(15, 10)) THEN "Health factor will be low"
        ELSE ""

\* SupplyModal: the error its validation effect leaves for the amount typed.
SupplyModalError(bal, token, amount) ==
    LET numAmount == ParseFloat(amount)
        availableBalance == IF token.isNative THEN ParseFloat(bal) ELSE Zero
    IN  IF ~Truthy(amount) THEN ""
        ELSE IF IsNaN(numAmount) \/ Le(numAmount, Zero) THEN "Please enter a valid amount"
        ELSE IF Gt(numAmount, availableBalance) THEN "Insufficient balance"
        ELSE ""

\* What a click on the modal's confirm button did: the provider state, the
\* modal, the error state of the page's hook instance, and the pool calls.
ClickResult(s, m, errPage, calls, sent, ret) ==
    [s |-> s, modal |-> m, errPage |-> errPage,
     calls |-> calls, sent |-> sent, ret |-> ret]

ClosedModal ==
    [show |-> "none", token |-> NoToken, step |-> 1, error |-> "", hookError |-> "null"]

OpenModal(kind, token) ==
    [show |-> kind, token |-> token, step |-> 1, error |-> "", hookError |-> "null"]

\* One confirmation in a modal.  `first` is the modal's own call of the hook
\* method, `second` the call the card's success handler makes through the
\* page's callback; m is the modal before the click.
AfterClick(m, first, second) ==
    IF first.threw
    THEN \* catch: setError(err.message); setStep(1)
         ClickResult(first.s,
                     [m EXCEPT !.step = 1, !.error = first.err, !.hookError = first.err],
                     "unchanged", first.calls, first.sent, "caught")
    ELSE IF second.threw
    THEN \* the card's handler rejects; the modal stays open at step 3
         ClickResult(second.s, [m EXCEPT !.step = 3, !.hookError = first.err],
                     second.err, first.calls + second.calls,
                     first.sent + second.sent, "rejected")
    ELSE \* setShowModal(false)
         ClickResult(second.s, ClosedModal, second.err,
                     first.calls + second.calls, first.sent + second.sent, "closed")

\* BorrowModal.handleBorrow, with onSuccess = BorrowCard.handleBorrowSuccess
\* and onBorrow = the page's useBorrow().borrow.  Both calls validate
\* against the state s of the render the click happened in.
handleBorrow(s, m, isConn, amount, env1, env2) ==
    LET first == UseBorrowBorrow(s, s, isConn, m.token, amount, env1)
        second == UseBorrowBorrow(first.s, s, isConn, m.token, amount, env2)
    IN  IF ~isConn
        THEN ClickResult(s, [m EXCEPT !.error = "Please connect your wallet"],
                         "unchanged", 0, 0, "return")
        ELSE IF BorrowModalError(s, m.token, amount) # "" \/ ~Truthy(amount)
                \/ Le(ParseFloat(amount), Zero)
        THEN ClickResult(s, [m EXCEPT !.error = BorrowModalError(s, m.token, amount)],
                         "unchanged", 0, 0, "return")
        ELSE AfterClick(m, first, second)

\* SupplyModal.handleSupply, with onSuccess = SupplyCard.handleSupplySuccess
\* and onSupply = the page's useSupply().supply.
handleSupply(s, m, isConn, bal, amount, env1, env2) ==
    LET first == UseSupplySupply(s, bal, isConn, m.token, amount, env1)
        second == UseSupplySupply(first.s, bal, isConn, m.token, amount, env2)
    IN  IF ~isConn
        THEN ClickResult(s, [m EXCEPT !.error = "Please connect your wallet"],
                         "unchanged", 0, 0, "return")
        ELSE IF SupplyModalError(bal, m.token, amount) # "" \/ ~Truthy(amount)
                \/ Le(ParseFloat(amount), Zero)
        THEN ClickResult(s, [m EXCEPT !.error = SupplyModalError(bal, m.token, amount)],
                         "unchanged", 0, 0, "return")
        ELSE AfterClick(m, first, second)


(***************************************************************************)
(* The health-factor functions.                                            *)
(***************************************************************************)
\* blockchain.js getUserAccountData: the pool's answer as numbers.
getUserAccountData(data) ==
    [totalCollateralETH |-> FormatUnits(data.collateral),
     totalDebtETH |-> FormatUnits(data.debt),
     availableBorrowsETH |-> FormatUnits(data.available),
     currentLiquidationThreshold |-> FormatUnits4(data.lt),
     healthFactor |-> FormatUnits(data.hf)]

\* calculateHealthFactorAfterAction with the withdrawn value added to the
\* collateral.
calculateHealthFactorAfterAction_WithdrawAdds(accountData, assetPrice, amount, action) ==
    LET amountInUSD == Mul(ParseFloat(amount), assetPrice)
        newCollateral ==
            IF action \in {"supply", "withdraw"}
            THEN Add(accountData.totalCollateralETH, amountInUSD)
            ELSE accountData.totalCollateralETH
        newDebt ==
            IF action = "borrow" THEN Add(accountData.totalDebtETH, amountInUSD)
            ELSE IF action = "repay" THEN Sub(accountData.totalDebtETH, amountInUSD)
            ELSE accountData.totalDebtETH
    IN  IF StrictEq(newDebt, Zero) THEN Infinity
        ELSE Div(Mul(newCollateral, accountData.currentLiquidationThreshold), newDebt)

\* blockchain.js calculateHealthFactorAfterAction, given the account data
\* and the oracle price it reads.
calculateHealthFactorAfterAction(accountData, assetPrice, amount, action) ==
    LET amountInUSD == Mul(ParseFloat(amount), assetPrice)
        newCollateral ==
            IF action = "supply" THEN Add(accountData.totalCollateralETH, amountInUSD)
            ELSE IF action = "withdraw" THEN Sub(accountData.totalCollateralETH, amountInUSD)
            ELSE accountData.totalCollateralETH
        newDebt ==
            IF action = "borrow" THEN Add(accountData.totalDebtETH, amountInUSD)
            ELSE IF action = "repay" THEN Sub(accountData.totalDebtETH, amountInUSD)
            ELSE accountData.totalDebtETH
    IN  IF StrictEq(newDebt, Zero) THEN Infinity
        ELSE Div(Mul(newCollateral, accountData.currentLiquidationThreshold), newDebt)

\* getHealthFactorStatus with 10 itself counted as above 10.
getHealthFactorStatus_TenHealthy(hf) ==
    IF StrictEq(hf, Infinity) \/ Ge(hf, Int2Num(10)) THEN "Healthy"
    ELSE IF Ge(hf, Int2Num(2)) THEN "Safe"
    ELSE IF Ge(hf, Fin(15, 10)) THEN "Moderate"
    ELSE IF Ge(hf, Fin(12, 10)) THEN "Warning"
    ELSE IF Ge(hf, Int2Num(1)) THEN "Critical"
    ELSE "Liquidatable"

\* getHealthFactorStatus with the texts of two neighbouring bands exchanged.
getHealthFactorStatus_BandsSwapped(hf) ==
    IF StrictEq(hf, Infinity) \/ Gt(hf, Int2Num(10)) THEN "Healthy"
    ELSE IF Ge(hf, Int2Num(2)) THEN "Moderate"
    ELSE IF Ge(hf, Fin(15, 10)) THEN "Safe"
    ELSE IF Ge(hf, Fin(12, 10)) THEN "Warning"
    ELSE IF Ge(hf, Int2Num(1)) THEN "Critical"
    ELSE "Liquidatable"

\* formatters getHealthFactorStatus: the text of the status.
getHealthFactorStatus(hf) ==
    IF StrictEq(hf, Infinity) \/ Gt(hf, Int2Num(10)) THEN "Healthy"
    ELSE IF Ge(hf, Int2Num(2)) THEN "Safe"
    ELSE IF Ge(hf, Fin(15, 10)) THEN "Moderate"
    ELSE IF Ge(hf, Fin(12, 10)) THEN "Warning"
    ELSE IF Ge(hf, Int2Num(1)) THEN "Critical"
    ELSE "Liquidatable"

(***************************************************************************)
(* The price service: a module-level cache in front of the price-feed API. *)
(* Of a price record the symbol, the price and the timestamp are carried;  *)
(* change24h and marketCap are filled exactly as the price is.             *)
(***************************************************************************)
CACHE_DURATION == 60000

\* new Map()
EmptyCache == [k \in {} |-> 0]

\* getTokenId(symbol), for the symbols of TOKEN_ID_MAP that are asked for.
getTokenId(symbol) ==
    CASE symbol = "ETH" -> "ethereum"
      [] symbol = "DAI" -> "dai"
      [] symbol = "USDC" -> "usd-coin"

\* A price record.
PriceData(symbol, price, timestamp) ==
    [symbol |-> symbol, price |-> price, timestamp |-> timestamp]

\* null, where a price record or a table of them is expected.
NoData == PriceData("null", Undefined, -1)

\* getCachedPrice with the comparison of the age turned around.
getCachedPrice_AgeInverted(cache, key, t) ==
    IF key \in DOMAIN cache /\ t - cache[key].timestamp > CACHE_DURATION
    THEN cache[key].data
    ELSE NoData

\* getCachedPrice(key) at time t: the entry's data while it is fresh.
getCachedPrice(cache, key, t) ==
    IF key \in DOMAIN cache /\ t - cache[key].timestamp < CACHE_DURATION
    THEN cache[key].data
    ELSE NoData

\* setCachedPrice(key, data) at time t
setCachedPrice(cache, key, data, t) ==
    [k \in DOMAIN cache \cup {key} |->
        IF k = key THEN [data |-> data, timestamp |-> t] ELSE cache[k]]

\* prices[tokenId]?.usd || 0
UsdOrZero(prices, tokenId) ==
    IF tokenId \in DOMAIN prices /\ Truthy(prices[tokenId].usd)
    THEN prices[tokenId].usd
    ELSE Zero

\* What a call of the price service did: the cache it leaves, what it
\* returned, and whether it called getTokenPrices.
PriceOutcome(cache, value, fetched) ==
    [cache |-> cache, value |-> value, fetched |-> fetched]

\* getTokenPrice that answers every failed fetch with the zero-price record.
getTokenPrice_IgnoresStale(cache, t, symbol, api) ==
    LET cacheKey == "price_" \o symbol
        cached == getCachedPrice(cache, cacheKey, t)
        tokenId == getTokenId(symbol)
        priceData == PriceData(symbol, UsdOrZero(api.prices, tokenId), t)
    IN  IF cached # NoData THEN PriceOutcome(cache, cached, FALSE)
        ELSE IF api.ok
        THEN PriceOutcome(setCachedPrice(cache, cacheKey, priceData, t),
                          priceData, TRUE)
        ELSE PriceOutcome(cache, PriceData(symbol, Zero, t), TRUE)

\* getTokenPrice that also caches the fallback record of a failed fetch.
getTokenPrice_CachesFallback(cache, t, symbol, api) ==
    LET cacheKey == "price_" \o symbol
        cached == getCachedPrice(cache, cacheKey, t)
        tokenId == getTokenId(symbol)
        priceData == PriceData(symbol, UsdOrZero(api.prices, tokenId), t)
        fallback == PriceData(symbol, Zero, t)
    IN  IF cached # NoData THEN PriceOutcome(cache, cached, FALSE)
        ELSE IF api.ok
        THEN PriceOutcome(setCachedPrice(cache, cacheKey, priceData, t),
                          priceData, TRUE)
        ELSE IF cacheKey \in DOMAIN cache
        THEN PriceOutcome(cache, cache[cacheKey].data, TRUE)
        ELSE PriceOutcome(setCachedPrice(cache, cacheKey, fallback, t),
                          fallback, TRUE)

\* getTokenPrice(symbol) at time t, the API answering api.
getTokenPrice(cache, t, symbol, api) ==
    LET cacheKey == "price_" \o symbol
        cached == getCachedPrice(cache, cacheKey, t)
        tokenId == getTokenId(symbol)
        priceData == PriceData(symbol, UsdOrZero(api.prices, tokenId), t)
    IN  IF cached # NoData THEN PriceOutcome(cache, cached, FALSE)
        ELSE IF api.ok
        THEN PriceOutcome(setCachedPrice(cache, cacheKey, priceData, t),
                          priceData, TRUE)
        ELSE IF cacheKey \in DOMAIN cache
        THEN PriceOutcome(cache, cache[cacheKey].data, TRUE)
        ELSE PriceOutcome(cache, PriceData(symbol, Zero, t), TRUE)

\* The order of Array.prototype.sort on the symbols.
SymbolRank(symbol) ==
    CASE symbol = "DAI" -> 1
      [] symbol = "ETH" -> 2
      [] symbol = "USDC" -> 3

\* symbols.sort(), for up to two symbols.
SortSymbols(symbols) ==
    IF Len(symbols) = 2 /\ SymbolRank(symbols[2]) < SymbolRank(symbols[1])
    THEN <<symbols[2], symbols[1]>>
    ELSE symbols

\* symbols.join('_')
RECURSIVE JoinSymbols(_)
JoinSymbols(symbols) ==
    IF Len(symbols) = 0 THEN ""
    ELSE IF Len(symbols) = 1 THEN symbols[1]
    ELSE symbols[1] \o "_" \o JoinSymbols(Tail(symbols))

\* getMultipleTokenPrices(symbols) at time t, the API answering api.
getMultipleTokenPrices(cache, t, symbols, api) ==
    LET sorted == SortSymbols(symbols)
        cacheKey == "prices_" \o JoinSymbols(sorted)
        cached == getCachedPrice(cache, cacheKey, t)
        names == {sorted[i] : i \in DOMAIN sorted}
        priceData ==
            [sym \in names |->
                PriceData(sym, UsdOrZero(api.prices, getTokenId(sym)), t)]
        fallbackData == [sym \in names |-> PriceData(sym, Zero, t)]
    IN  IF cached # NoData THEN PriceOutcome(cache, cached, FALSE)
        ELSE IF api.ok
        THEN PriceOutcome(setCachedPrice(cache, cacheKey, priceData, t),
                          priceData, TRUE)
        ELSE IF cacheKey \in DOMAIN cache
        THEN PriceOutcome(cache, cache[cacheKey].data, TRUE)
        ELSE PriceOutcome(cache, fallbackData, TRUE)

\* The record kept of the last call of the price service.
PriceResult(fn, key, ok, out) ==
    [fn |-> fn, key |-> key, ok |-> ok, fetched |-> out.fetched,
     value |-> out.value]

NoPriceResult ==
    PriceResult("none", "", FALSE, PriceOutcome(EmptyCache, NoData, FALSE))

(***************************************************************************)
(* Inputs.                                                                 *)
(***************************************************************************)
Amounts == {Int2Num(i) : i \in 1 .. MaxAmount}

\* The optional amount of withdraw and repay: omitted, or a positive number
\* that may exceed what any position holds.
ReduceAmounts == {Null} \cup {Int2Num(i) : i \in 1 .. MaxAmount + 1}

\* What can stand in a modal's amount field.
TypedAmounts == {Null, Zero} \cup Amounts

\* The ids a caller can pass: those of the positions held, and one of none.
IdsOf(list) == {list[i].id : i \in DOMAIN list} \cup {0}

\* What getBalance reports for the connected account.
Balances == {Int2Num(1)}

\* Operations that never ask for an approval.
PlainEnvs == {e \in Envs : e.approve = "sufficient"}

WithinBounds(s) ==
    /\ s.now <= MaxClock
    /\ Len(s.supplies) <= MaxPositions
    /\ Len(s.borrows) <= MaxPositions

NoQuery ==
    [fn |-> "none", data |-> ChainSnapshot(0, 0, 0, 0, 0), price |-> Zero,
     amount |-> Null, action |-> "none", a |-> Zero, b |-> Zero]

NoAnswer == [fn |-> "none", hf |-> Undefined, statusA |-> "", statusB |-> ""]

(***************************************************************************)
(* The application.                                                        *)
(***************************************************************************)
\* The provider's state after construction.
SetCPInit ==
    /\ supplies = InitCP.supplies
    /\ borrows = InitCP.borrows
    /\ totalSupplied = InitCP.totalSupplied
    /\ totalBorrowed = InitCP.totalBorrowed
    /\ healthFactor = InitCP.healthFactor
    /\ availableToBorrow = InitCP.availableToBorrow
    /\ transactions = InitCP.transactions
    /\ isLoading = InitCP.isLoading
    /\ error = InitCP.error
    /\ now = InitCP.now

Init ==
    /\ SetCPInit
    /\ page = "index"
    /\ hookError = "null"
    /\ modal = ClosedModal
    /\ connected = FALSE
    /\ balance = Zero
    /\ query = NoQuery
    /\ answer = NoAnswer
    /\ priceCache = EmptyCache
    /\ priceResult = NoPriceResult
    /\ OtherInit

pureVars == <<query, answer>>

uiVars == <<page, hookError, modal>>

walletVars == <<connected, balance>>

priceVars == <<priceCache, priceResult>>

\* The ContractProvider state without the clock.
accountVars ==
    <<supplies, borrows, totalSupplied, totalBorrowed, healthFactor,
      availableToBorrow, transactions, isLoading, error>>

\* A direct call of a ContractProvider method, with result r.
ProviderCall(r) ==
    /\ WithinBounds(r.s)
    /\ SetCP(r.s)
    /\ UNCHANGED <<uiVars, walletVars, pureVars, priceVars, otherVars>>

ProviderSupply(token, amount, env) ==
    ProviderCall(CPSupply(CP, connected, token, amount, env))

ProviderWithdraw(id, amount, env) ==
    ProviderCall(CPWithdraw(CP, connected, id, amount, env))

ProviderBorrow(token, amount, env) ==
    ProviderCall(CPBorrow(CP, connected, token, amount, env))

ProviderRepay(id, amount, env) ==
    ProviderCall(CPRepay(CP, connected, id, amount, env))

\* loadUserAccountData called on its own (the context exposes it).
LoadUserAccountData(load) ==
    /\ SetCP(loadUserAccountData(CP, connected, load))
    /\ UNCHANGED <<uiVars, walletVars, pureVars, priceVars, otherVars>>

\* The wallet connects: the provider's effect loads the account data.
Connect(bal, load) ==
    /\ ~connected
    /\ connected' = TRUE
    /\ balance' = bal
    /\ SetCP(loadUserAccountData(CP, TRUE, load))
    /\ UNCHANGED <<uiVars, pureVars, priceVars, otherVars>>

\* disconnectWallet
Disconnect ==
    /\ connected
    /\ connected' = FALSE
    /\ balance' = Zero
    /\ UNCHANGED <<cpVars, uiVars, pureVars, priceVars, otherVars>>

\* The ContractProvider on its own: its methods called directly, in any
\* order, with the wallet connecting and disconnecting.
Next ==
    \/ \E t \in SUPPORTED_TOKENS, a \in Amounts, e \in Envs : ProviderSupply(t, a, e)
    \/ \E i \in IdsOf(supplies), a \in ReduceAmounts, e \in PlainEnvs :
          ProviderWithdraw(i, a, e)
    \/ \E t \in SUPPORTED_TOKENS, a \in Amounts, e \in PlainEnvs : ProviderBorrow(t, a, e)
    \/ \E i \in IdsOf(borrows), a \in ReduceAmounts, e \in Envs : ProviderRepay(i, a, e)
    \/ \E l \in LoadOutcomes : LoadUserAccountData(l)
    \/ \E b \in Balances, l \in LoadOutcomes : Connect(b, l)
    \/ Disconnect

Spec == Init /\ [][Next]_vars


(***************************************************************************)
(* The pages.  The supply page and the borrow page each mount one instance *)
(* of their hook and a card per token; leaving a page unmounts them.       *)
(***************************************************************************)
Navigate(p) ==
    /\ p # page
    /\ page' = p
    /\ hookError' = "null"
    /\ modal' = ClosedModal
    /\ UNCHANGED <<cpVars, walletVars, pureVars, priceVars, otherVars>>

\* A call of a method of the page's hook instance, with result r.
HookCall(r) ==
    /\ WithinBounds(r.s)
    /\ SetCP(r.s)
    /\ hookError' = r.err
    /\ UNCHANGED <<page, modal, walletVars, pureVars, priceVars, otherVars>>

Borrow(token, amount, env) ==
    /\ page = "borrow"
    /\ HookCall(UseBorrowBorrow(CP, CP, connected, token, amount, env))

Repay(id, amount, env) ==
    /\ page = "borrow"
    /\ HookCall(UseBorrowRepay(CP, connected, id, amount, env))

Supply(token, amount, env) ==
    /\ page = "supply"
    /\ HookCall(UseSupplySupply(CP, balance, connected, token, amount, env))

Withdraw(id, amount, env) ==
    /\ page = "supply"
    /\ HookCall(UseSupplyWithdraw(CP, connected, id, amount, env))

\* useBorrow.validateBorrowAmount called on its own.
ValidateBorrowAmount(token, amount) ==
    /\ page = "borrow"
    /\ hookError' = validateBorrowAmount(CP, amount, token).err
    /\ UNCHANGED <<cpVars, page, modal, walletVars, pureVars, priceVars, otherVars>>

\* BorrowCard.handleBorrowClick / SupplyCard.handleSupplyClick: the modal of
\* the card's token is mounted.
OpenBorrowModal(token) ==
    /\ page = "borrow"
    /\ modal.show = "none"
    /\ modal' = OpenModal("borrow", token)
    /\ UNCHANGED <<cpVars, page, hookError, walletVars, pureVars, priceVars, otherVars>>

OpenSupplyModal(token) ==
    /\ page = "supply"
    /\ modal.show = "none"
    /\ modal' = OpenModal("supply", token)
    /\ UNCHANGED <<cpVars, page, hookError, walletVars, pureVars, priceVars, otherVars>>

\* onClose
CloseModal ==
    /\ modal.show # "none"
    /\ modal' = ClosedModal
    /\ UNCHANGED <<cpVars, page, hookError, walletVars, pureVars, priceVars, otherVars>>

\* One click on a modal's confirm button, with everything it sets off.
Click(c) ==
    /\ WithinBounds(c.s)
    /\ SetCP(c.s)
    /\ modal' = c.modal
    /\ hookError' = IF c.errPage = "unchanged" THEN hookError ELSE c.errPage
    /\ UNCHANGED <<page, walletVars, pureVars, priceVars, otherVars>>

HandleBorrow(amount, env1, env2) ==
    /\ modal.show = "borrow"
    /\ Click(handleBorrow(CP, modal, connected, amount, env1, env2))

HandleSupply(amount, env1, env2) ==
    /\ modal.show = "supply"
    /\ Click(handleSupply(CP, modal, connected, balance, amount, env1, env2))

\* A session on the borrow page in which the methods of the page's useBorrow
\* instance are called.
NextBorrowPage ==
    \/ \E p \in {"index", "borrow"} : Navigate(p)
    \/ \E t \in SUPPORTED_TOKENS, a \in TypedAmounts, e \in PlainEnvs : Borrow(t, a, e)
    \/ \E i \in IdsOf(borrows), a \in ReduceAmounts, e \in Envs : Repay(i, a, e)
    \/ \E t \in SUPPORTED_TOKENS \cup {NoToken}, a \in TypedAmounts :
          ValidateBorrowAmount(t, a)
    \/ \E b \in Balances, l \in LoadOutcomes : Connect(b, l)
    \/ Disconnect

SpecBorrowPage == Init /\ [][NextBorrowPage]_vars

\* A session on the borrow page in which the user works the cards' modals.
NextBorrowModal ==
    \/ \E p \in {"index", "borrow"} : Navigate(p)
    \/ \E t \in SUPPORTED_TOKENS : OpenBorrowModal(t)
    \/ CloseModal
    \/ \E a \in TypedAmounts, e1 \in PlainEnvs, e2 \in PlainEnvs : HandleBorrow(a, e1, e2)
    \/ \E b \in Balances, l \in LoadOutcomes : Connect(b, l)
    \/ Disconnect

SpecBorrowModal == Init /\ [][NextBorrowModal]_vars

\* A session on the supply page in which the methods of the page's useSupply
\* instance are called.
NextSupplyPage ==
    \/ \E p \in {"index", "supply"} : Navigate(p)
    \/ \E t \in SUPPORTED_TOKENS, a \in TypedAmounts, e \in Envs : Supply(t, a, e)
    \/ \E i \in IdsOf(supplies), a \in ReduceAmounts, e \in PlainEnvs : Withdraw(i, a, e)
    \/ \E b \in Balances, l \in LoadOutcomes : Connect(b, l)
    \/ Disconnect

SpecSupplyPage == Init /\ [][NextSupplyPage]_vars

\* A session on the supply page in which the user works the cards' modals.
NextSupplyModal ==
    \/ \E p \in {"index", "supply"} : Navigate(p)
    \/ \E t \in SUPPORTED_TOKENS : OpenSupplyModal(t)
    \/ CloseModal
    \/ \E a \in TypedAmounts, e1 \in Envs, e2 \in Envs : HandleSupply(a, e1, e2)
    \/ \E b \in Balances, l \in LoadOutcomes : Connect(b, l)
    \/ Disconnect

SpecSupplyModal == Init /\ [][NextSupplyModal]_vars

(***************************************************************************)
(* The health-factor functions on their own: a question is drawn, and the  *)
(* function it names answers it.                                           *)
(***************************************************************************)
\* Dollar values, in steps of 2,500.
Values == {2500 * i : i \in 0 .. MaxValue}

\* availableBorrows as the pool derives it, at a loan-to-value of 0.80.
ChainAvailable(c, d) == IF (c * 8) \div 10 > d THEN (c * 8) \div 10 - d ELSE 0

\* Answers of the pool's getUserAccountData for the accounts considered.
AccountData ==
    {ChainSnapshot(100 * c, 100 * d, 100 * ChainAvailable(c, d), lt,
                   ChainHF(100 * c, 100 * d, lt)) :
        c \in Values, d \in Values, lt \in {8500, 9000}}

\* Amounts as they are passed: a number of tokens, or nothing.
TokenAmounts == {Null} \cup {Int2Num(v) : v \in Values}

\* Prices the oracle's getAssetPrice returns.
OraclePrices == {Int2Num(i) : i \in 0 .. 2}

\* Health factors to classify: the tenths from -0.5 to MaxGrid / 10, the
\* hundredths next to each threshold, and the non-finite numbers.
Grid ==
    {Fin(i, 10) : i \in -5 .. MaxGrid}
    \cup {Fin(b + e, 100) : b \in {100, 120, 150, 200, 1000}, e \in {-1, 1}}
    \cup {Infinity, NegInfinity, NaN}

AfterActionQueries ==
    {[NoQuery EXCEPT !.fn = "calculateHealthFactorAfterAction", !.data = d,
                     !.price = p, !.amount = a, !.action = act] :
        d \in AccountData, p \in OraclePrices, a \in TokenAmounts,
        act \in {"supply", "withdraw", "borrow", "repay"}}

NewHealthFactorQueries ==
    {[NoQuery EXCEPT !.fn = "calculateNewHealthFactor", !.data = d,
                     !.price = p, !.amount = a, !.action = "borrow"] :
        d \in AccountData, p \in OraclePrices \cup {Undefined}, a \in TokenAmounts}

StatusQueries ==
    {[NoQuery EXCEPT !.fn = "getHealthFactorStatus", !.a = a, !.b = b] :
        a \in Grid, b \in Grid}

InitHF ==
    /\ SetCPInit
    /\ page = "index"
    /\ hookError = "null"
    /\ modal = ClosedModal
    /\ connected = FALSE
    /\ balance = Zero
    /\ query \in AfterActionQueries \cup NewHealthFactorQueries \cup StatusQueries
    /\ answer = NoAnswer
    /\ priceCache = EmptyCache
    /\ priceResult = NoPriceResult
    /\ OtherInit

\* blockchain.js calculateHealthFactorAfterAction on the account data and
\* the price read for the asked account and asset.
CalculateHealthFactorAfterAction ==
    /\ query.fn = "calculateHealthFactorAfterAction"
    /\ answer = NoAnswer
    /\ answer' = [NoAnswer EXCEPT
                    !.fn = query.fn,
                    !.hf = calculateHealthFactorAfterAction(
                               getUserAccountData(query.data), query.price,
                               query.amount, query.action)]
    /\ UNCHANGED <<cpVars, uiVars, walletVars, query, priceVars, otherVars>>

\* useBorrow.calculateNewHealthFactor in a provider that has loaded the
\* account data, for a token of the asked price.
CalculateNewHealthFactor ==
    /\ query.fn = "calculateNewHealthFactor"
    /\ answer = NoAnswer
    /\ answer' = [NoAnswer EXCEPT
                    !.fn = query.fn,
                    !.hf = calculateNewHealthFactor(
                               loadUserAccountData(InitCP, TRUE,
                                   [ok |-> TRUE, data |-> query.data]),
                               query.amount, Token("T", FALSE, query.price))]
    /\ UNCHANGED <<cpVars, uiVars, walletVars, query, priceVars, otherVars>>

\* formatters getHealthFactorStatus on each of the two asked health factors.
GetHealthFactorStatus ==
    /\ query.fn = "getHealthFactorStatus"
    /\ answer = NoAnswer
    /\ answer' = [NoAnswer EXCEPT
                    !.fn = query.fn,
                    !.statusA = getHealthFactorStatus(query.a),
                    !.statusB = getHealthFactorStatus(query.b)]
    /\ UNCHANGED <<cpVars, uiVars, walletVars, query, priceVars, otherVars>>

NextHF ==
    \/ CalculateHealthFactorAfterAction
    \/ CalculateNewHealthFactor
    \/ GetHealthFactorStatus

SpecHF == InitHF /\ [][NextHF]_vars

(***************************************************************************)
(* The price service in use: calls of its functions as time passes and the *)
(* price feed answers or fails.                                            *)
(***************************************************************************)
\* The symbols asked for, singly and as lists.
PriceSymbols == {"ETH"}

SymbolLists == {<<"ETH", "DAI">>, <<"DAI", "ETH">>}

\* The ids the price feed knows.
FeedIds == {getTokenId("ETH"), getTokenId("DAI")}

\* Answers of getTokenPrices: an error, or a table with a usd price for
\* some of the ids.
ApiAnswers ==
    {[ok |-> FALSE, prices |-> EmptyCache]}
    \cup {[ok |-> TRUE, prices |-> f] :
            f \in UNION {[ids -> {[usd |-> Int2Num(q)] : q \in 1 .. MaxPrice}] :
                            ids \in SUBSET FeedIds}}

\* The moments at which something happens: the ends of the cache windows
\* and the millisecond before each.
Moments ==
    {k * CACHE_DURATION - e : k \in 1 .. MaxTicks, e \in {0, 1}}

\* Time passes.
Tick(t) ==
    /\ t > now
    /\ now' = t
    /\ UNCHANGED <<accountVars, uiVars, walletVars, pureVars, priceVars, otherVars>>

PriceCall(fn, key, api, out) ==
    /\ priceCache' = out.cache
    /\ priceResult' = PriceResult(fn, key, api.ok, out)
    /\ UNCHANGED <<cpVars, uiVars, walletVars, pureVars, otherVars>>

GetTokenPrice(symbol, api) ==
    PriceCall("getTokenPrice", "price_" \o symbol, api,
              getTokenPrice(priceCache, now, symbol, api))

GetMultipleTokenPrices(symbols, api) ==
    PriceCall("getMultipleTokenPrices",
              "prices_" \o JoinSymbols(SortSymbols(symbols)), api,
              getMultipleTokenPrices(priceCache, now, symbols, api))

\* clearPriceCache()
ClearPriceCache ==
    /\ priceCache' = EmptyCache
    /\ priceResult' = PriceResult("clearPriceCache", "", FALSE,
                                  PriceOutcome(EmptyCache, NoData, FALSE))
    /\ UNCHANGED <<cpVars, uiVars, walletVars, pureVars, otherVars>>

NextPrice ==
    \/ \E t \in Moments : Tick(t)
    \/ \E sym \in PriceSymbols, api \in ApiAnswers : GetTokenPrice(sym, api)
    \/ \E syms \in SymbolLists, api \in ApiAnswers : GetMultipleTokenPrices(syms, api)
    \/ ClearPriceCache

SpecPrice == Init /\ [][NextPrice]_vars


(***************************************************************************)
(* The position lists at length: a session long enough to hold two         *)
(* positions in a list, with the wallet answering every transaction and    *)
(* no approval asked for.                                                  *)
(***************************************************************************)
LedgerEnvs == {e \in PlainEnvs : e.tx # "reverted" /\ ~e.load.ok}

LedgerTokens == {t \in SUPPORTED_TOKENS : t.symbol \in {"ETH", "USDC"}}

WithinLedger(s) ==
    /\ s.now <= MaxLedgerClock
    /\ Len(s.supplies) <= MaxLedgerPositions
    /\ Len(s.borrows) <= MaxLedgerPositions

LedgerCall(r) ==
    /\ WithinLedger(r.s)
    /\ SetCP(r.s)
    /\ UNCHANGED <<uiVars, walletVars, pureVars, priceVars, otherVars>>

LedgerSupply(token, amount, env) ==
    LedgerCall(CPSupply(CP, connected, token, amount, env))

LedgerWithdraw(id, amount, env) ==
    LedgerCall(CPWithdraw(CP, connected, id, amount, env))

LedgerBorrow(token, amount, env) ==
    LedgerCall(CPBorrow(CP, connected, token, amount, env))

LedgerRepay(id, amount, env) ==
    LedgerCall(CPRepay(CP, connected, id, amount, env))

NextLedger ==
    \/ \E t \in LedgerTokens, a \in Amounts, e \in LedgerEnvs : LedgerSupply(t, a, e)
    \/ \E i \in IdsOf(supplies), a \in ReduceAmounts, e \in LedgerEnvs :
          LedgerWithdraw(i, a, e)
    \/ \E t \in LedgerTokens, a \in Amounts, e \in LedgerEnvs : LedgerBorrow(t, a, e)
    \/ \E i \in IdsOf(borrows), a \in ReduceAmounts, e \in LedgerEnvs :
          LedgerRepay(i, a, e)
    \/ \E b \in Balances : Connect(b, NoLoad)

SpecLedger == Init /\ [][NextLedger]_vars

(***************************************************************************)
(* Properties of the health-factor functions (SpecHF).                     *)
(***************************************************************************)
\* The asked amount and price as whole dollars and whole tokens.
AskedValue == query.amount.n * query.price.n

AskedCollateral == query.data.collateral \div 100

AskedDebt == query.data.debt \div 100

\* The totals an action is to produce, in whole dollars.
ExpectedCollateral ==
    IF query.action = "supply" THEN AskedCollateral + AskedValue
    ELSE IF query.action = "withdraw" THEN AskedCollateral - AskedValue
    ELSE AskedCollateral

ExpectedDebt ==
    IF query.action = "borrow" THEN AskedDebt + AskedValue
    ELSE IF query.action = "repay" THEN AskedDebt - AskedValue
    ELSE AskedDebt

\* C4: for each of supply, withdraw, borrow and repay,
\* calculateHealthFactorAfterAction moves the collateral (supply +,
\* withdraw -) or the debt (borrow +, repay -) by amount x price, leaves the
\* other total as it is, and when the resulting debt is positive returns
\* exactly (new collateral x liquidation threshold) / new debt.
C4_AfterActionFormula ==
    (/\ answer.fn = "calculateHealthFactorAfterAction"
     /\ query.amount.k = "fin"
     /\ ExpectedDebt > 0)
    => answer.hf = Fin(ExpectedCollateral * (query.data.lt \div 100),
                       ExpectedDebt * 100)

\* C4 happens: a withdrawal of value from an account in debt was predicted.
C4_Witness ==
    /\ answer.fn = "calculateHealthFactorAfterAction"
    /\ query.action = "withdraw"
    /\ AskedValue = 2500
    /\ AskedCollateral = 10000
    /\ AskedDebt = 5000
    /\ query.data.lt = 9000
    /\ answer.hf = Fin(135, 100)

\* C5: a predicted repay whose value is at least the current debt returns
\* +Infinity, never a negative or finite number.
C5_RepayClearsDebt ==
    (/\ answer.fn = "calculateHealthFactorAfterAction"
     /\ query.action = "repay"
     /\ query.amount.k = "fin"
     /\ AskedValue >= AskedDebt)
    => answer.hf = Infinity

\* C6: for a positive borrow amount at a positive price,
\* useBorrow.calculateNewHealthFactor uses the account's own liquidation
\* threshold and so returns what calculateHealthFactorAfterAction returns
\* for a borrow on the same account.
C6_SameThreshold ==
    (/\ answer.fn = "calculateNewHealthFactor"
     /\ query.amount.k = "fin"
     /\ AskedValue > 0)
    => answer.hf = calculateHealthFactorAfterAction(
                       getUserAccountData(query.data), query.price,
                       query.amount, "borrow")

\* The band of a non-negative health factor n/d or of +Infinity, by the
\* table of thresholds.
Band(h) ==
    IF h.k = "inf" THEN "Healthy"
    ELSE IF h.n < h.d THEN "Liquidatable"
    ELSE IF 10 * h.n < 12 * h.d THEN "Critical"
    ELSE IF 10 * h.n < 15 * h.d THEN "Warning"
    ELSE IF h.n < 2 * h.d THEN "Moderate"
    ELSE IF h.n <= 10 * h.d THEN "Safe"
    ELSE "Healthy"

Rank(status) ==
    CASE status = "Liquidatable" -> 0
      [] status = "Critical" -> 1
      [] status = "Warning" -> 2
      [] status = "Moderate" -> 3
      [] status = "Safe" -> 4
      [] status = "Healthy" -> 5

\* C8: for health factors a < b (b may be +Infinity) the class of a is never
\* safer than the class of b.
C8_Monotonic ==
    (answer.fn = "getHealthFactorStatus" /\ Lt(query.a, query.b))
    => Rank(answer.statusA) <= Rank(answer.statusB)

\* C8 happens: two health factors in neighbouring bands were classified.
C8_Witness ==
    /\ answer.fn = "getHealthFactorStatus"
    /\ query.a = Fin(199, 100)
    /\ query.b = Int2Num(2)
    /\ answer.statusA = "Moderate"
    /\ answer.statusB = "Safe"

(***************************************************************************)
(* Properties of the provider, the hooks and the modals.                   *)
(***************************************************************************)
\* The pool transactions of a type that the wallet has returned so far.
SentCount(log, type) ==
    Cardinality({i \in DOMAIN log : log[i].type = type /\ log[i].hash # "none"})

\* C1: one confirmation in the borrow modal submits at most one borrow
\* transaction to the lending pool, the callbacks it sets off included.
C1_OneConfirmationOneTransaction ==
    [][(\E a \in TypedAmounts, e1 \in PlainEnvs, e2 \in PlainEnvs :
            HandleBorrow(a, e1, e2))
       => SentCount(transactions', TX_TYPES.BORROW)
              <= SentCount(transactions, TX_TYPES.BORROW) + 1]_vars

\* C2: a withdraw (a repay) of more than the position holds submits no
\* transaction, reports an error, and leaves the position as it is.
C2_ExcessReductionRefused ==
    [][/\ \A i \in IdsOf(supplies), a \in ReduceAmounts, e \in PlainEnvs :
            (/\ ProviderWithdraw(i, a, e)
             /\ connected
             /\ FindById(supplies, i) # NoPosition
             /\ Truthy(a)
             /\ Gt(a, FindById(supplies, i).amount))
            => (/\ transactions' = transactions
                /\ supplies' = supplies
                /\ error' # "null")
       /\ \A i \in IdsOf(borrows), a \in ReduceAmounts, e \in Envs :
            (/\ ProviderRepay(i, a, e)
             /\ connected
             /\ FindById(borrows, i) # NoPosition
             /\ Truthy(a)
             /\ Gt(a, FindById(borrows, i).amount))
            => (/\ transactions' = transactions
                /\ borrows' = borrows
                /\ error' # "null")]_vars

\* C3: in every state of the provider, a total debt of zero goes with a
\* health factor of +Infinity.
C3_NoDebtInfiniteHealth ==
    StrictEq(totalBorrowed, Zero) => healthFactor = Infinity

\* C9: with a token whose price is zero or undefined,
\* useBorrow.validateBorrowAmount returns false (it leaves a message) and
\* useBorrow.borrow submits no transaction.
C9_NoPriceNoBorrow ==
    [][\A t \in {u \in SUPPORTED_TOKENS : u.price \in {Zero, Undefined}},
          a \in TypedAmounts :
          /\ ValidateBorrowAmount(t, a) => hookError' # "null"
          /\ \A e \in PlainEnvs :
                Borrow(t, a, e) => transactions' = transactions]_vars

\* C10: a borrow whose predicted health factor is below 1.0 is not passed
\* to the lending pool by ContractProvider.borrow; an error is reported
\* instead.
C10_UnsafeBorrowRefused ==
    [][\A t \in SUPPORTED_TOKENS, a \in Amounts, e \in PlainEnvs :
          (/\ ProviderBorrow(t, a, e)
           /\ connected
           /\ Lt(calculateNewHealthFactor(CP, a, t), HEALTH_FACTOR.CRITICAL))
          => (/\ transactions' = transactions
              /\ error' # "null")]_vars

(***************************************************************************)
(* Properties of the price service (SpecPrice).                            *)
(***************************************************************************)
\* The key has an entry younger than the cache window.
FreshEntry(key) ==
    /\ key \in DOMAIN priceCache
    /\ now - priceCache[key].timestamp < 60000

\* The step serves the entry of the key without asking the price feed.
ServedFromCache(key) ==
    /\ priceResult'.value = priceCache[key].data
    /\ ~priceResult'.fetched
    /\ priceCache' = priceCache

\* C11: while the entry of the key price_<symbol> is younger than 60000 ms,
\* getTokenPrice returns exactly the entry's data and does not call the
\* price feed; likewise getMultipleTokenPrices and its key.
C11_FreshServedWithoutIO ==
    [][/\ \A sym \in PriceSymbols, api \in ApiAnswers :
            (GetTokenPrice(sym, api) /\ FreshEntry("price_" \o sym))
            => ServedFromCache("price_" \o sym)
       /\ \A syms \in SymbolLists, api \in ApiAnswers :
            (GetMultipleTokenPrices(syms, api) /\ FreshEntry("prices_DAI_ETH"))
            => ServedFromCache("prices_DAI_ETH")]_vars

\* C11 happens: one millisecond before the window ends the entry written at
\* time 0 was returned and the price feed was not asked.
C11_Witness ==
    /\ priceResult.fn = "getTokenPrice"
    /\ ~priceResult.fetched
    /\ now = 59999
    /\ "price_ETH" \in DOMAIN priceCache
    /\ priceCache["price_ETH"].timestamp = 0
    /\ priceResult.value = priceCache["price_ETH"].data

\* C12: an entry, once written, stays: no step removes it, and a
\* getTokenPrice whose fetch fails returns the data of the entry it finds
\* (never the zero-price record) and leaves the cache as it is.
C12_StaleNeverDropped ==
    [][/\ \A k \in DOMAIN priceCache : k \in DOMAIN priceCache'
       /\ \A sym \in PriceSymbols, api \in ApiAnswers :
            (/\ GetTokenPrice(sym, api)
             /\ ~api.ok
             /\ ("price_" \o sym) \in DOMAIN priceCache
             /\ ~FreshEntry("price_" \o sym))
            => (/\ priceResult'.value = priceCache["price_" \o sym].data
                /\ priceCache' = priceCache)]_vars

\* C12, amended: an entry stays until clearPriceCache empties the cache, and
\* a getTokenPrice whose fetch fails returns the data of the entry it finds,
\* however old, and leaves the cache as it is.
C12_StaleKeptUntilCleared ==
    [][/\ ClearPriceCache \/ \A k \in DOMAIN priceCache : k \in DOMAIN priceCache'
       /\ \A sym \in PriceSymbols, api \in ApiAnswers :
            (/\ GetTokenPrice(sym, api)
             /\ ~api.ok
             /\ ("price_" \o sym) \in DOMAIN priceCache
             /\ ~FreshEntry("price_" \o sym))
            => (/\ priceResult'.value = priceCache["price_" \o sym].data
                /\ priceCache' = priceCache)]_vars

\* C12 happens: a fetch failed when the entry written at time 0 had reached
\* the end of its window, and the entry's data came back.
C12_Witness ==
    /\ priceResult.fn = "getTokenPrice"
    /\ priceResult.fetched
    /\ ~priceResult.ok
    /\ now = 60000
    /\ "price_ETH" \in DOMAIN priceCache
    /\ priceCache["price_ETH"].timestamp = 0
    /\ priceResult.value = priceCache["price_ETH"].data
    /\ Gt(priceResult.value.price, Zero)

\* C13: without an entry and with a failing fetch, getTokenPrice returns a
\* record of price 0 for the symbol and writes nothing to the cache; a call
\* that finds no entry always asks the price feed.
C13_NoEntryFailedFetch ==
    [][\A sym \in PriceSymbols, api \in ApiAnswers :
          (GetTokenPrice(sym, api) /\ ("price_" \o sym) \notin DOMAIN priceCache)
          => (/\ priceResult'.fetched
              /\ ~api.ok => (/\ priceResult'.value.symbol = sym
                             /\ priceResult'.value.price = Zero
                             /\ priceCache' = priceCache))]_vars

\* C13 happens: a fetch failed with nothing cached, and price 0 came back.
C13_Witness ==
    /\ priceResult.fn = "getTokenPrice"
    /\ priceResult.fetched
    /\ ~priceResult.ok
    /\ priceResult.value.price = Zero
    /\ "price_ETH" \notin DOMAIN priceCache

\* C14: every entry of the cache holds positive prices only.
C14_CachedPricesPositive ==
    /\ "price_ETH" \in DOMAIN priceCache
          => Gt(priceCache["price_ETH"].data.price, Zero)
    /\ "prices_DAI_ETH" \in DOMAIN priceCache
          => \A sym \in DOMAIN priceCache["prices_DAI_ETH"].data :
                Gt(priceCache["prices_DAI_ETH"].data[sym].price, Zero)

(***************************************************************************)
(* Properties of the provider's transaction records and positions (Spec).  *)
(***************************************************************************)
\* C15: between operations no transaction record is 'pending': the
\* operation that created a record leaves it 'confirmed' or 'failed'.
C15_NoRecordLeftPending ==
    ~isLoading =>
        \A i \in DOMAIN transactions :
            transactions[i].status \in {TX_STATUS.CONFIRMED, TX_STATUS.FAILED}

\* The positions and the two totals are as before the step.
PositionsUntouched ==
    /\ supplies' = supplies
    /\ borrows' = borrows
    /\ totalSupplied' = totalSupplied
    /\ totalBorrowed' = totalBorrowed

\* C16: a supply, withdraw, borrow or repay that throws (at the approval,
\* the submission or the confirmation) leaves supplies, borrows,
\* totalSupplied and totalBorrowed exactly as they were.
C16_ThrowLeavesPositions ==
    [][PositionsUntouched
       \/ /\ \A t \in SUPPORTED_TOKENS, a \in Amounts, e \in Envs :
                ProviderSupply(t, a, e) => ~CPSupply(CP, connected, t, a, e).threw
          /\ \A i \in IdsOf(supplies), a \in ReduceAmounts, e \in PlainEnvs :
                ProviderWithdraw(i, a, e) => ~CPWithdraw(CP, connected, i, a, e).threw
          /\ \A t \in SUPPORTED_TOKENS, a \in Amounts, e \in PlainEnvs :
                ProviderBorrow(t, a, e) => ~CPBorrow(CP, connected, t, a, e).threw
          /\ \A i \in IdsOf(borrows), a \in ReduceAmounts, e \in Envs :
                ProviderRepay(i, a, e) => ~CPRepay(CP, connected, i, a, e).threw]_vars

\* C16 happens: a borrow was submitted and reverted, and no borrow position
\* exists.
C16_Witness ==
    /\ Len(transactions) = 1
    /\ transactions[1].type = TX_TYPES.BORROW
    /\ transactions[1].status = TX_STATUS.PENDING
    /\ transactions[1].hash = "0x"
    /\ error = "transaction failed"
    /\ borrows = <<>>
    /\ totalBorrowed = Zero

(***************************************************************************)
(* Operations that overlap.  supply and borrow are async functions: each   *)
(* runs to its first await, and continues when the wallet returns the      *)
(* transaction, when the receipt arrives and when the account data has     *)
(* been read.  Between these steps other calls may begin or continue.      *)
(* Date.now() reads the clock as it stands; the clock moves by Tick, so    *)
(* two readings can fall in one millisecond.  The token of a supply is the *)
(* native one, which asks for no approval.                                 *)
(***************************************************************************)
Operation(type, token, amount, txId, pc) ==
    [type |-> type, token |-> token, amount |-> amount, txId |-> txId, pc |-> pc]

OverlapTokens == {t \in SUPPORTED_TOKENS : t.symbol \in {"ETH", "USDC"}}

OverlapLoads == {l \in LoadOutcomes : ~l.ok \/ l.data.debt = 0}

\* The sequence without its i-th element.
RemoveAt(seq, i) == SubSeq(seq, 1, i - 1) \o SubSeq(seq, i + 1, Len(seq))

\* catch and finally of an operation: setError(err.message), setIsLoading(false).
Thrown(i, msg) ==
    /\ error' = msg
    /\ isLoading' = FALSE
    /\ inflight' = RemoveAt(inflight, i)

\* supply(token, amount) or borrow(token, amount) up to the await of the
\* pool method: isLoading and error are set and the record is added.
BeginOperation(type, amount) ==
    /\ connected
    /\ Len(inflight) < MaxOverlap
    /\ Len(transactions) < MaxCalls
    /\ isLoading' = TRUE
    /\ error' = "null"
    /\ transactions' =
          <<[id |-> now, type |-> type, status |-> TX_STATUS.PENDING,
             hash |-> "none"]>> \o transactions
    /\ \E t \in OverlapTokens :
          /\ t.isNative <=> type = TX_TYPES.SUPPLY
          /\ inflight' = Append(inflight, Operation(type, t, amount, now, "submitting"))
    /\ UNCHANGED <<supplies, borrows, totalSupplied, totalBorrowed, healthFactor,
                   availableToBorrow, now, uiVars, walletVars, pureVars, priceVars, allowance, sessionVars, subscription>>

\* The wallet returns the transaction (its hash is recorded) or rejects it.
Submitted(i, ok) ==
    /\ i \in DOMAIN inflight
    /\ inflight[i].pc = "submitting"
    /\ IF ok
       THEN /\ transactions' =
                  updateTransactionStatus(CP, inflight[i].txId,
                                          TX_STATUS.PENDING, "0x").transactions
            /\ inflight' = [inflight EXCEPT ![i].pc = "confirming"]
            /\ UNCHANGED <<isLoading, error>>
       ELSE /\ Thrown(i, "transaction failed")
            /\ UNCHANGED transactions
    /\ UNCHANGED <<supplies, borrows, totalSupplied, totalBorrowed, healthFactor,
                   availableToBorrow, now, uiVars, walletVars, pureVars, priceVars, allowance, sessionVars, subscription>>

\* tx.wait() returns the receipt, or the transaction reverts.  With the
\* receipt the record is confirmed and the position is added under the id
\* Date.now().
Confirmed(i, ok) ==
    /\ i \in DOMAIN inflight
    /\ inflight[i].pc = "confirming"
    /\ IF ok
       THEN LET op == inflight[i]
                position == Position(now, op.token, op.amount)
                value == Mul(op.amount, op.token.price)
            IN  /\ transactions' =
                      updateTransactionStatus(CP, op.txId,
                                              TX_STATUS.CONFIRMED, "0x").transactions
                /\ IF op.type = TX_TYPES.SUPPLY
                   THEN /\ supplies' = Append(supplies, position)
                        /\ totalSupplied' = Add(totalSupplied, value)
                        /\ UNCHANGED <<borrows, totalBorrowed>>
                   ELSE /\ borrows' = Append(borrows, position)
                        /\ totalBorrowed' = Add(totalBorrowed, value)
                        /\ UNCHANGED <<supplies, totalSupplied>>
                /\ inflight' = [inflight EXCEPT ![i].pc = "loading"]
                /\ UNCHANGED <<isLoading, error>>
       ELSE /\ Thrown(i, "transaction failed")
            /\ UNCHANGED <<transactions, supplies, borrows, totalSupplied,
                           totalBorrowed>>
    /\ UNCHANGED <<healthFactor, availableToBorrow, now, uiVars, walletVars,
                   pureVars, priceVars, allowance, sessionVars, subscription>>

\* loadUserAccountData has answered or failed; the operation returns the
\* receipt and its finally block runs.
Loaded(i, load) ==
    /\ i \in DOMAIN inflight
    /\ inflight[i].pc = "loading"
    /\ LET s == loadUserAccountData(CP, connected, load)
       IN  /\ totalSupplied' = s.totalSupplied
           /\ totalBorrowed' = s.totalBorrowed
           /\ healthFactor' = s.healthFactor
           /\ availableToBorrow' = s.availableToBorrow
    /\ isLoading' = FALSE
    /\ inflight' = RemoveAt(inflight, i)
    /\ UNCHANGED <<supplies, borrows, transactions, error, now, uiVars,
                   walletVars, pureVars, priceVars, allowance, sessionVars, subscription>>

\* A millisecond passes.
ClockTick ==
    /\ now < MaxOverlapClock
    /\ now' = now + 1
    /\ UNCHANGED <<accountVars, uiVars, walletVars, pureVars, priceVars, otherVars>>

NextOverlap ==
    \/ \E type \in {TX_TYPES.SUPPLY, TX_TYPES.BORROW}, a \in Amounts :
          BeginOperation(type, a)
    \/ \E i \in 1 .. MaxOverlap, ok \in BOOLEAN : Submitted(i, ok)
    \/ \E i \in 1 .. MaxOverlap, ok \in BOOLEAN : Confirmed(i, ok)
    \/ \E i \in 1 .. MaxOverlap, l \in OverlapLoads : Loaded(i, l)
    \/ ClockTick
    \/ \E b \in Balances : Connect(b, NoLoad)

SpecOverlap == Init /\ [][NextOverlap]_vars

(***************************************************************************)
(* The supply of a token that is not native, step by step: the allowance   *)
(* is read, an approval is requested where it falls short, and then the    *)
(* deposit is submitted as above.  One supply is made at a time.           *)
(***************************************************************************)
\* web3 getAllowance: the pool's allowance as the chain reports it, or '0'
\* when the read fails.
getAllowance(ok) == IF ok THEN allowance ELSE 0

\* supply(token, amount) up to the await of getAllowance in checkAndApprove.
BeginTokenSupply(amount) ==
    /\ connected
    /\ inflight = <<>>
    /\ Len(transactions) < MaxCalls
    /\ isLoading' = TRUE
    /\ error' = "null"
    /\ \E t \in OverlapTokens :
          /\ ~t.isNative
          /\ inflight' = <<Operation(TX_TYPES.SUPPLY, t, amount, 0, "allowance")>>
    /\ UNCHANGED <<supplies, borrows, totalSupplied, totalBorrowed, healthFactor,
                   availableToBorrow, transactions, now, uiVars, walletVars,
                   pureVars, priceVars, allowance, sessionVars, subscription>>

\* The record of the deposit is added and lendingPool.deposit is called.
SubmitDeposit(i) ==
    /\ transactions' =
          <<[id |-> now, type |-> TX_TYPES.SUPPLY, status |-> TX_STATUS.PENDING,
             hash |-> "none"]>> \o transactions
    /\ inflight' = [inflight EXCEPT ![i].txId = now, ![i].pc = "submitting"]

\* getAllowance has answered: with enough allowance checkAndApprove returns
\* and the deposit is submitted; otherwise the approval is recorded and
\* approveToken is called.
AllowanceRead(i, ok) ==
    /\ i \in DOMAIN inflight
    /\ inflight[i].pc = "allowance"
    /\ IF Ge(Int2Num(getAllowance(ok)), inflight[i].amount)
       THEN SubmitDeposit(i)
       ELSE /\ transactions' =
                  <<[id |-> now, type |-> TX_TYPES.APPROVE,
                     status |-> TX_STATUS.PENDING, hash |-> "none"]>>
                  \o transactions
            /\ inflight' = [inflight EXCEPT ![i].txId = now, ![i].pc = "approving"]
    /\ UNCHANGED <<supplies, borrows, totalSupplied, totalBorrowed, healthFactor,
                   availableToBorrow, isLoading, error, now, uiVars, walletVars,
                   pureVars, priceVars, allowance, sessionVars, subscription>>

\* approveToken has ended: the wallet rejected the approval, the approval
\* reverted, or its receipt came, after which the approval is recorded as
\* confirmed and the deposit is submitted.
Approval(i, tx) ==
    /\ i \in DOMAIN inflight
    /\ inflight[i].pc = "approving"
    /\ IF tx = "confirmed"
       THEN /\ allowance' = inflight[i].amount.n
            /\ transactions' =
                  <<[id |-> now, type |-> TX_TYPES.SUPPLY,
                     status |-> TX_STATUS.PENDING, hash |-> "none"]>>
                  \o updateTransactionStatus(CP, inflight[i].txId,
                                             TX_STATUS.CONFIRMED, "0x").transactions
            /\ inflight' = [inflight EXCEPT ![i].txId = now, ![i].pc = "submitting"]
            /\ UNCHANGED <<isLoading, error>>
       ELSE /\ Thrown(i, "approval failed")
            /\ UNCHANGED <<transactions, allowance>>
    /\ UNCHANGED <<supplies, borrows, totalSupplied, totalBorrowed, healthFactor,
                   availableToBorrow, now, uiVars, walletVars, pureVars, priceVars,
                   sessionVars, subscription>>

\* The account grants or withdraws the allowance by other means.
SetAllowance(a) ==
    /\ inflight = <<>>
    /\ allowance # a
    /\ allowance' = a
    /\ UNCHANGED <<cpVars, uiVars, walletVars, pureVars, priceVars, inflight,
                   sessionVars, subscription>>

NextApprove ==
    \/ \E a \in Amounts : BeginTokenSupply(a)
    \/ \E ok \in BOOLEAN : AllowanceRead(1, ok)
    \/ \E tx \in TxOutcomes : Approval(1, tx)
    \/ \E ok \in BOOLEAN : Submitted(1, ok)
    \/ \E ok \in BOOLEAN : Confirmed(1, ok)
    \/ \E l \in OverlapLoads : Loaded(1, l)
    \/ \E a \in 0 .. MaxAmount : SetAllowance(a)
    \/ ClockTick
    \/ \E b \in Balances : Connect(b, NoLoad)

SpecApprove == Init /\ [][NextApprove]_vars

(***************************************************************************)
(* WalletProvider, step by step.  Its async functions run to an await and  *)
(* continue when the wallet or the chain answers; in between the user and  *)
(* the wallet's events act.  isConnected is the variable connected.  The   *)
(* listener effect runs again after every render in which account has      *)
(* changed, since handleAccountsChanged is rebuilt then.                   *)
(***************************************************************************)
WalletAccounts == {"A", "B"}

\* What getBalance reports for an account.
BalanceOf(a) == IF a = "A" THEN Int2Num(1) ELSE Int2Num(2)

WalletCall(fn, address, pc) == [fn |-> fn, address |-> address, pc |-> pc]

\* The cleanup of the listener effect: the handlers of accountsChanged and
\* chainChanged are removed; removeListener('disconnect', disconnectWallet)
\* names a function that was never registered and removes nothing.
CleanupListeners(l) ==
    [accountsChanged |-> l.accountsChanged - 1,
     chainChanged |-> l.chainChanged - 1,
     disconnect |-> l.disconnect]

\* The setup of the listener effect: one handler more for each event.
SetupListeners(l) ==
    [accountsChanged |-> l.accountsChanged + 1,
     chainChanged |-> l.chainChanged + 1,
     disconnect |-> l.disconnect + 1]

\* The effects after a render: the listener effect is run again when
\* account is no longer the one its handlers were built with.
AfterRender(before, after) ==
    IF before = after THEN listeners ELSE SetupListeners(CleanupListeners(listeners))

\* setAccount(a) with the effect that follows; bounded by the handlers on
\* window.ethereum.
SetAccount(a) ==
    /\ AfterRender(account, a).disconnect <= MaxListeners
    /\ account' = a
    /\ listeners' = AfterRender(account, a)

\* disconnectWallet()
disconnectWallet ==
    /\ SetAccount("null")
    /\ chainId' = "null"
    /\ balance' = Zero
    /\ connected' = FALSE
    /\ stored' = FALSE
    /\ UNCHANGED walletCalls

\* connectWallet() up to the await of requestAccounts.
ConnectWallet ==
    /\ Len(walletCalls) < MaxWalletCalls
    /\ walletCalls' = Append(walletCalls, WalletCall("connectWallet", "null", "accounts"))
    /\ UNCHANGED <<account, chainId, listeners, stored, walletVars>>

\* requestAccounts has answered: rejected, with no account, or with the
\* accounts, the first of which is selected and its data loaded.
RequestAccountsAnswered(i, a) ==
    /\ i \in DOMAIN walletCalls
    /\ walletCalls[i].pc = "accounts"
    /\ walletCalls[i].fn = "connectWallet"
    /\ IF a \in WalletAccounts
       THEN /\ SetAccount(a)
            /\ connected' = TRUE
            /\ stored' = TRUE
            /\ walletCalls' =
                  [walletCalls EXCEPT ![i] = WalletCall("loadAccountData", a, "balance")]
            /\ UNCHANGED <<chainId, balance>>
       ELSE /\ connected' = FALSE
            /\ walletCalls' = RemoveAt(walletCalls, i)
            /\ UNCHANGED <<account, chainId, listeners, stored, balance>>

\* The mount-time check: getCurrentAccount has answered.
CurrentAccountRead(i, a) ==
    /\ i \in DOMAIN walletCalls
    /\ walletCalls[i].pc = "accounts"
    /\ walletCalls[i].fn = "checkConnection"
    /\ IF a \in WalletAccounts
       THEN /\ SetAccount(a)
            /\ connected' = TRUE
            /\ walletCalls' =
                  [walletCalls EXCEPT ![i] = WalletCall("loadAccountData", a, "balance")]
            /\ UNCHANGED <<chainId, balance, stored>>
       ELSE /\ stored' = FALSE
            /\ walletCalls' = RemoveAt(walletCalls, i)
            /\ UNCHANGED <<account, chainId, listeners, walletVars>>

\* loadAccountData: getBalance has answered.
BalanceRead(i, ok) ==
    /\ i \in DOMAIN walletCalls
    /\ walletCalls[i].pc = "balance"
    /\ IF ok
       THEN /\ balance' = BalanceOf(walletCalls[i].address)
            /\ walletCalls' = [walletCalls EXCEPT ![i].pc = "chain"]
       ELSE /\ walletCalls' = RemoveAt(walletCalls, i)
            /\ UNCHANGED balance
    /\ UNCHANGED <<account, chainId, listeners, stored, connected>>

\* loadAccountData: getChainId has answered.
ChainRead(i, ok) ==
    /\ i \in DOMAIN walletCalls
    /\ walletCalls[i].pc = "chain"
    /\ chainId' = IF ok THEN "0x1" ELSE chainId
    /\ walletCalls' = RemoveAt(walletCalls, i)
    /\ UNCHANGED <<account, listeners, stored, walletVars>>

\* The user disconnects.
DisconnectWallet ==
    /\ connected \/ account # "null"
    /\ disconnectWallet

\* The wallet's accountsChanged event, with the first account of its list
\* ("none" for an empty list).
AccountsChanged(a) ==
    /\ listeners.accountsChanged >= 1
    /\ IF a = "none"
       THEN account # "null" /\ disconnectWallet
       ELSE /\ a # account
            /\ Len(walletCalls) < MaxWalletCalls
            /\ SetAccount(a)
            /\ walletCalls' =
                  Append(walletCalls, WalletCall("loadAccountData", a, "balance"))
            /\ UNCHANGED <<chainId, stored, walletVars>>

\* The wallet's disconnect event.
WalletDisconnected ==
    /\ listeners.disconnect >= 1
    /\ account # "null"
    /\ disconnectWallet

\* The wallet's chainChanged event: the page is reloaded.  The new page's
\* WalletProvider starts from its initial state, registers its handlers on
\* the new page's window.ethereum, and checks for a stored connection.
ChainChanged ==
    /\ listeners.chainChanged >= 1
    /\ account # "null" \/ walletCalls # <<>>
    /\ account' = "null"
    /\ chainId' = "null"
    /\ balance' = Zero
    /\ connected' = FALSE
    /\ listeners' = MountedListeners
    /\ walletCalls' = IF stored
                      THEN <<WalletCall("checkConnection", "null", "accounts")>>
                      ELSE <<>>
    /\ UNCHANGED stored

\* A step of the wallet provider leaves the rest as it is.
WalletStep(A) ==
    /\ A
    /\ UNCHANGED <<cpVars, uiVars, pureVars, priceVars, inflight, allowance,
                   subscription>>

NextWallet ==
    \/ WalletStep(ConnectWallet)
    \/ \E i \in 1 .. MaxWalletCalls, a \in WalletAccounts \cup {"none", "rejected"} :
          WalletStep(RequestAccountsAnswered(i, a))
    \/ \E i \in 1 .. MaxWalletCalls, a \in WalletAccounts \cup {"none"} :
          WalletStep(CurrentAccountRead(i, a))
    \/ \E i \in 1 .. MaxWalletCalls, ok \in BOOLEAN : WalletStep(BalanceRead(i, ok))
    \/ \E i \in 1 .. MaxWalletCalls, ok \in BOOLEAN : WalletStep(ChainRead(i, ok))
    \/ WalletStep(DisconnectWallet)
    \/ \E a \in WalletAccounts \cup {"none"} : WalletStep(AccountsChanged(a))
    \/ WalletStep(WalletDisconnected)
    \/ WalletStep(ChainChanged)

SpecWallet == Init /\ [][NextWallet]_vars

(***************************************************************************)
(* subscribeToPriceUpdates: updatePrices is called at once and then by the *)
(* interval timer; each call awaits getMultipleTokenPrices and hands the   *)
(* prices to the callback.  The function returned clears the timer.        *)
(***************************************************************************)
\* subscribeToPriceUpdates(symbols, callback): the first fetch is started
\* and the timer is set.
Subscribe ==
    /\ subscription.state = "none"
    /\ subscription' = [subscription EXCEPT !.state = "active", !.pending = 1]
    /\ UNCHANGED <<cpVars, uiVars, walletVars, pureVars, priceVars, inflight,
                   allowance, sessionVars>>

\* The interval timer fires: updatePrices starts another fetch.
IntervalFires ==
    /\ subscription.state = "active"
    /\ subscription.pending < MaxPending
    /\ subscription' = [subscription EXCEPT !.pending = @ + 1]
    /\ UNCHANGED <<cpVars, uiVars, walletVars, pureVars, priceVars, inflight,
                   allowance, sessionVars>>

\* A fetch of updatePrices ends: getMultipleTokenPrices returns and the
\* callback is called with the prices.
PricesDelivered(symbols, api) ==
    /\ subscription.pending > 0
    /\ subscription.received < MaxReceived
    /\ LET out == getMultipleTokenPrices(priceCache, now, symbols, api)
       IN  /\ priceCache' = out.cache
           /\ priceResult' =
                 PriceResult("getMultipleTokenPrices",
                             "prices_" \o JoinSymbols(SortSymbols(symbols)),
                             api.ok, out)
    /\ subscription' = [subscription EXCEPT !.pending = @ - 1, !.received = @ + 1]
    /\ UNCHANGED <<cpVars, uiVars, walletVars, pureVars, inflight, allowance,
                   sessionVars>>

\* The unsubscribe function: clearInterval(intervalId).
Unsubscribe ==
    /\ subscription.state = "active"
    /\ subscription' = [subscription EXCEPT !.state = "ended"]
    /\ UNCHANGED <<cpVars, uiVars, walletVars, pureVars, priceVars, inflight,
                   allowance, sessionVars>>

NextSubscribe ==
    \/ Subscribe
    \/ IntervalFires
    \/ \E syms \in {<<"ETH", "DAI">>}, api \in ApiAnswers : PricesDelivered(syms, api)
    \/ Unsubscribe
    \/ \E t \in Moments : Tick(t)

SpecSubscribe == Init /\ [][NextSubscribe]_vars


\* The sum over the positions of amount x price, added up from the left as
\* reduce does, starting at 0.
RECURSIVE SumValue(_)
SumValue(list) ==
    IF list = <<>> THEN Zero
    ELSE Add(SumValue(SubSeq(list, 1, Len(list) - 1)),
             Mul(list[Len(list)].amount, list[Len(list)].token.price))

\* C17: between operations totalSupplied is the sum over supplies of
\* amount x price, and totalBorrowed the sum over borrows.
C17_TotalsAreSums ==
    ~isLoading =>
        /\ totalSupplied = SumValue(supplies)
        /\ totalBorrowed = SumValue(borrows)

\* C18: totalSupplied and totalBorrowed are numbers that are not negative.
C18_TotalsNonNegative ==
    /\ Ge(totalSupplied, Zero)
    /\ Ge(totalBorrowed, Zero)

\* The positions of the list other than the one with that id, in order.
Others(list, id) == SelectSeq(list, LAMBDA p : p.id # id)

\* What a confirmed withdraw or repay of amount a does to the list that
\* holds the position with that id: a partial one (0 < a < the position's
\* amount) keeps the position with its amount less a; a full one (a
\* omitted or equal to the position's amount) removes it; the others stay.
ReducedOrRemoved(list, after, id, a) ==
    LET p == FindById(list, id)
        isPartial == a # Null /\ Lt(Zero, a) /\ Lt(a, p.amount)
        isFull == a = Null \/ StrictEq(a, p.amount)
    IN  /\ isPartial =>
              /\ Len(after) = Len(list)
              /\ \A k \in DOMAIN list :
                    list[k].id = id =>
                        /\ after[k].id = id
                        /\ after[k].token = list[k].token
                        /\ after[k].amount = Sub(list[k].amount, a)
              /\ Others(after, id) = Others(list, id)
        /\ isFull =>
              /\ Len(after) = Len(list) - 1
              /\ after = Others(list, id)

\* The step recorded a confirmed transaction of that type.
Recorded(type) ==
    /\ Len(transactions') = Len(transactions) + 1
    /\ transactions'[1].type = type
    /\ transactions'[1].status = TX_STATUS.CONFIRMED

supplyAPY(token) ==
    CASE token.symbol = "ETH" -> Fin(35, 10)
      [] token.symbol = "USDC" -> Fin(42, 10)
      [] token.symbol = "DAI" -> Fin(40, 10)
      [] OTHER -> Undefined

borrowAPY(token) ==
    CASE token.symbol = "ETH" -> Fin(52, 10)
      [] token.symbol = "USDC" -> Fin(68, 10)
      [] token.symbol = "DAI" -> Fin(65, 10)
      [] OTHER -> Undefined

\* list.reduce((sum, s) => sum + (s.amount * s.token.price), 0)
RECURSIVE totalValue(_)
totalValue(list) ==
    IF list = <<>> THEN Zero
    ELSE Add(totalValue(SubSeq(list, 1, Len(list) - 1)),
             Mul(list[Len(list)].amount, list[Len(list)].token.price))

\* list.reduce((sum, s) => sum + (s.apy * ((s.amount * s.token.price) / total)), 0)
RECURSIVE weightedAPY(_, _, _)
weightedAPY(list, total, side) ==
    IF list = <<>> THEN Zero
    ELSE LET s == list[Len(list)]
             apy == IF side = "supply" THEN supplyAPY(s.token) ELSE borrowAPY(s.token)
             weight == Div(Mul(s.amount, s.token.price), total)
         IN  Add(weightedAPY(SubSeq(list, 1, Len(list) - 1), total, side),
                 Mul(apy, weight))

\* useSupply.averageSupplyAPY
averageSupplyAPY(list) ==
    IF Len(list) = 0 THEN Zero
    ELSE IF StrictEq(totalValue(list), Zero) THEN Zero
    ELSE weightedAPY(list, totalValue(list), "supply")

\* useBorrow.averageBorrowAPY
averageBorrowAPY(list) ==
    IF Len(list) = 0 THEN Zero
    ELSE IF StrictEq(totalValue(list), Zero) THEN Zero
    ELSE weightedAPY(list, totalValue(list), "borrow")

\* useYield.averageAPY, dividing by the context's totalSupplied
averageAPY(list, total) ==
    IF Len(list) = 0 \/ StrictEq(total, Zero) THEN Zero
    ELSE weightedAPY(list, total, "supply")

\* C20: the weighted average APY of an empty position list, or of one whose
\* total value is 0, is 0, and that of a single position is the position's
\* APY, for averageSupplyAPY, averageBorrowAPY and averageAPY alike.
C20_AverageOfOneIsItsAPY ==
    /\ (supplies = <<>> \/ StrictEq(SumValue(supplies), Zero)) =>
          /\ averageSupplyAPY(supplies) = Zero
          /\ averageAPY(supplies, totalSupplied) = Zero
    /\ (borrows = <<>> \/ StrictEq(SumValue(borrows), Zero)) =>
          averageBorrowAPY(borrows) = Zero
    /\ (Len(supplies) = 1 /\ ~StrictEq(SumValue(supplies), Zero)) =>
          /\ averageSupplyAPY(supplies) = supplyAPY(supplies[1].token)
          /\ averageAPY(supplies, totalSupplied) = supplyAPY(supplies[1].token)
    /\ (Len(borrows) = 1 /\ ~StrictEq(SumValue(borrows), Zero)) =>
          averageBorrowAPY(borrows) = borrowAPY(borrows[1].token)

(***************************************************************************)
(* Compound projections.  The inputs are chosen so that the base           *)
(* 1 + rate / 365 and the exponent 365 * years are whole numbers: an apy   *)
(* of 255500 gives base 8, and years = k / 365 gives exponent k.           *)
(***************************************************************************)
\* base * base * ... (e times), for a whole e >= 0.
RECURSIVE PowerOf(_, _)
PowerOf(base, e) == IF e = 0 THEN Int2Num(1) ELSE Mul(base, PowerOf(base, e - 1))

\* Math.pow(base, exponent): 1 for exponent 0 whatever the base, NaN for a
\* NaN operand, the exact power where it is small, and +Infinity where a
\* base of 8 or more is raised to 342 or more: 8^342 = 2^1026 is past
\* Number.MAX_VALUE.
MathPow(base0, exponent0) ==
    LET base == ToNumber(base0)
        exponent == ToNumber(exponent0)
    IN  CASE exponent = Zero -> Int2Num(1)
          [] exponent # Zero /\ (base.k = "nan" \/ exponent.k = "nan") -> NaN
          [] base = Int2Num(1) /\ exponent.k = "fin" /\ exponent # Zero -> Int2Num(1)
          [] base.k = "fin" /\ base # Int2Num(1) /\ exponent.k = "fin"
             /\ exponent.d = 1 /\ exponent.n \in 1 .. MaxCompoundings + 1 ->
                PowerOf(base, exponent.n)
          [] Ge(base, Int2Num(8)) /\ exponent.k = "fin" /\ exponent.n >= 342 * exponent.d ->
                Infinity

\* useYield.calculateCompoundProjection with the subtraction the other way.
calculateCompoundProjection_InterestNegated(principal, apy, years) ==
    LET rate == Div(apy, Int2Num(100))
        amount == Mul(principal,
                      MathPow(Add(Int2Num(1), Div(rate, Int2Num(365))),
                              Mul(Int2Num(365), years)))
        interest == Sub(principal, amount)
    IN  [finalAmount |-> amount, totalInterest |-> interest,
         percentageGain |-> Mul(Div(interest, principal), Int2Num(100))]

\* useYield.calculateCompoundProjection(principal, apy, years)
calculateCompoundProjection(principal, apy, years) ==
    LET rate == Div(apy, Int2Num(100))
        amount == Mul(principal,
                      MathPow(Add(Int2Num(1), Div(rate, Int2Num(365))),
                              Mul(Int2Num(365), years)))
        interest == Sub(amount, principal)
    IN  [finalAmount |-> amount, totalInterest |-> interest,
         percentageGain |-> Mul(Div(interest, principal), Int2Num(100))]

\* APYDisplay.calculateProjection with the two input fields as they stand.
calculateProjection(supplyApy, calculatorAmount, calculatorPeriod) ==
    LET principal == IF Truthy(ParseFloat(calculatorAmount))
                     THEN ParseFloat(calculatorAmount) ELSE Zero
        years == IF Truthy(ParseFloat(calculatorPeriod))
                 THEN ParseFloat(calculatorPeriod) ELSE Int2Num(1)
        rate == Div(supplyApy, Int2Num(100))
        simpleInterest == Mul(Mul(principal, rate), years)
        compoundInterest ==
            Sub(Mul(principal,
                    MathPow(Add(Int2Num(1), Div(rate, Int2Num(365))),
                            Mul(Int2Num(365), years))),
                principal)
    IN  [principal |-> principal, simpleInterest |-> simpleInterest,
         compoundInterest |-> compoundInterest,
         finalAmount |-> Add(principal, compoundInterest)]

\* Principals, yields and periods asked for.
Principals == {Int2Num(i) : i \in 0 .. MaxAmount}

Yields == {Zero, Int2Num(255500)}

Periods == {Fin(k, 365) : k \in 0 .. MaxCompoundings} \cup {Fin(1024, 365)}

\* What can stand in a field of the calculator: nothing, or a number.
PeriodFields == {Null} \cup {Fin(k, 365) : k \in 0 .. MaxCompoundings}

CompoundQueries ==
    {[fn |-> "calculateCompoundProjection", principal |-> p, apy |-> y,
      years |-> y1, years2 |-> y2] :
        p \in Principals, y \in Yields, y1 \in Periods, y2 \in Periods}

CalculatorQueries ==
    {[fn |-> "calculateProjection", principal |-> p, apy |-> y,
      years |-> y1, years2 |-> y1] :
        p \in {Null} \cup Principals, y \in Yields, y1 \in PeriodFields}

NoProjection == [fn |-> "none", first |-> Undefined, second |-> Undefined]

InitYield ==
    /\ SetCPInit
    /\ page = "index"
    /\ hookError = "null"
    /\ modal = ClosedModal
    /\ connected = FALSE
    /\ balance = Zero
    /\ query \in CompoundQueries \cup CalculatorQueries
    /\ answer = NoProjection
    /\ priceCache = EmptyCache
    /\ priceResult = NoPriceResult
    /\ OtherInit

\* calculateCompoundProjection for each of the two asked periods.
CalculateCompoundProjection ==
    /\ query.fn = "calculateCompoundProjection"
    /\ answer = NoProjection
    /\ answer' = [fn |-> query.fn,
                  first |-> calculateCompoundProjection(
                                query.principal, query.apy, query.years),
                  second |-> calculateCompoundProjection(
                                 query.principal, query.apy, query.years2)]
    /\ UNCHANGED <<cpVars, uiVars, walletVars, query, priceVars, otherVars>>

\* A render of APYDisplay with the asked contents of the calculator fields.
CalculateProjection ==
    /\ query.fn = "calculateProjection"
    /\ answer = NoProjection
    /\ answer' = [fn |-> query.fn,
                  first |-> calculateProjection(
                                query.apy, query.principal, query.years),
                  second |-> Undefined]
    /\ UNCHANGED <<cpVars, uiVars, walletVars, query, priceVars, otherVars>>

NextYield ==
    \/ CalculateCompoundProjection
    \/ CalculateProjection

SpecYield == InitYield /\ [][NextYield]_vars

\* C21: a projection over zero years returns the principal and no interest,
\* from calculateCompoundProjection and from the calculator of APYDisplay.
C21_ZeroYearsNoInterest ==
    /\ (answer.fn = "calculateCompoundProjection" /\ query.years = Zero) =>
          /\ answer.first.finalAmount = query.principal
          /\ answer.first.totalInterest = Zero
    /\ (answer.fn = "calculateProjection" /\ query.years = Zero) =>
          /\ answer.first.finalAmount = answer.first.principal
          /\ answer.first.compoundInterest = Zero

\* C22: for a principal >= 0, an apy > 0 and periods y1 <= y2 the interest
\* over y1 is at most the interest over y2.
C22_InterestNonDecreasing ==
    (/\ answer.fn = "calculateCompoundProjection"
     /\ Gt(query.apy, Zero)
     /\ Le(query.years, query.years2))
    => Le(answer.first.totalInterest, answer.second.totalInterest)

\* C23: no two supply positions, no two borrow positions and no two
\* transaction records share an id.
C23_IdsUnique ==
    /\ \A i, j \in DOMAIN supplies : supplies[i].id = supplies[j].id => i = j
    /\ \A i, j \in DOMAIN borrows : borrows[i].id = borrows[j].id => i = j
    /\ \A i, j \in DOMAIN transactions :
          transactions[i].id = transactions[j].id => i = j

\* C24: isLoading is true while a supply or borrow is awaiting its
\* submission, its confirmation or the account data, and false once none is.
C24_LoadingWhileInFlight ==
    isLoading <=> inflight # <<>>

\* The deposit of the operation has been requested from the wallet.
DepositRequested(op) ==
    /\ op.type = TX_TYPES.SUPPLY
    /\ op.pc \in {"submitting", "confirming", "loading"}

\* C25: the deposit of a token that is not native is submitted only once the
\* pool's allowance covers the amount (an approval, where one was needed,
\* has been confirmed, and none has failed), and an approval is requested
\* only for such a token and only while the allowance is below the amount.
C25_ApproveBeforeDeposit ==
    \A i \in DOMAIN inflight :
        /\ (DepositRequested(inflight[i]) /\ ~inflight[i].token.isNative)
              => Ge(Int2Num(allowance), inflight[i].amount)
        /\ inflight[i].pc = "approving"
              => /\ ~inflight[i].token.isNative
                 /\ Lt(Int2Num(allowance), inflight[i].amount)

\* C26: isConnected is true exactly when account is not null.
C26_ConnectedIffAccount ==
    connected <=> account # "null"

\* C27: the balance and the chain id come from a load made for the current
\* account: with no account the balance is '0' and the chain id null, and
\* a balance that was loaded is the current account's.
C27_NoStaleLoad ==
    /\ account = "null" => (balance = Zero /\ chainId = "null")
    /\ (account # "null" /\ balance # Zero) => balance = BalanceOf(account)

\* C28: at most one handler is registered on window.ethereum for each of
\* accountsChanged, chainChanged and disconnect.
C28_OneListenerEach ==
    /\ listeners.accountsChanged <= 1
    /\ listeners.chainChanged <= 1
    /\ listeners.disconnect <= 1

\* C29: once unsubscribe has been called the subscriber's callback is not
\* called again.
C29_NoCallbackAfterUnsubscribe ==
    [][subscription.state = "ended"
       => subscription'.received = subscription.received]_vars

(***************************************************************************)
(* The borrow summary of useBorrow.                                        *)
(***************************************************************************)
\* formatters formatHealthFactor(collateral, debt) with the default
\* liquidation threshold 0.85: the infinity sign, or the number with two
\* decimals.
formatHealthFactor(collateral, debt) ==
    LET hf == Div(Mul(collateral, Fin(85, 100)), debt)
    IN  IF StrictEq(ToNumber(debt), Zero) THEN [text |-> "infinity", value |-> Infinity]
        ELSE IF Gt(hf, Int2Num(100)) THEN [text |-> "infinity", value |-> Infinity]
        ELSE [text |-> "number", value |-> ToFixed2(hf)]

\* useBorrow.borrowSummary: the health factor shown and its status.
borrowSummary(cs) ==
    [healthFactor |-> formatHealthFactor(cs.totalSupplied, cs.totalBorrowed),
     healthFactorStatus |-> getHealthFactorStatus(cs.healthFactor)]

\* C30: the class of the health factor shown in the borrow summary is the
\* status shown next to it, and the infinity sign is shown exactly when
\* healthFactor is +Infinity.
C30_SummaryConsistent ==
    LET summary == borrowSummary(CP)
    IN  /\ getHealthFactorStatus(summary.healthFactor.value) = summary.healthFactorStatus
        /\ summary.healthFactor.text = "infinity" <=> healthFactor = Infinity

====
